---------------------------- MODULE Spec2Model ----------------------------
(***************************************************************************)
(* State-machine model of quickwit-splits4java (rust/src): the process-wide *)
(* handle registries of lib.rs, the boundary functions of jni_bridge.rs,    *)
(* the split generator of split_generator.rs and the split reader of        *)
(* split_reader.rs, over a small file system of byte sequences.             *)
(*                                                                         *)
(* Strings that the code inspects character by character (file names,      *)
(* split ids) are sequences of one-character strings; file contents are     *)
(* sequences of bytes 0..255.  The JNI environment itself (class lookup,    *)
(* string conversion, object construction) is taken to succeed.             *)
(***************************************************************************)
EXTENDS Integers, Sequences, FiniteSets, TLC

VARIABLES
    COUNTER,             \* lib.rs:50  static COUNTER: AtomicI64
    GENERATOR_REGISTRY,  \* lib.rs:41  handle -> generator
    READER_REGISTRY,     \* lib.rs:44  handle -> reader
    genLock,             \* threads inside GENERATOR_REGISTRY's mutex
    rdrLock,             \* threads inside READER_REGISTRY's mutex
    pc,                  \* per thread: position in the call it is executing
    loc,                 \* per thread: arguments, locals and the last result
    fs,                  \* path -> directory entry
    handed,              \* history: values returned by generate_handle, in order
    issued,              \* history: handles returned by register_*, in order
    removed              \* history: handles for which unregister_* returned true

vars == <<COUNTER, GENERATOR_REGISTRY, READER_REGISTRY, genLock, rdrLock,
          pc, loc, fs, handed, issued, removed>>

---------------------------------------------------------------------------
(* Bounds of the model *)

\* register_* is not started once COUNTER exceeds MaxHandle
MaxHandle == 2
\* longest original store content drawn for the footer specification
MaxOrigLen == 2
\* largest number of segments of an index drawn for the core specification
MaxSegments == 2
\* generate_split is not started on a directory holding more bytes than this
MaxSplitBytes == 200
\* most entries of the metadata map of a HotcacheInfo drawn for the round trip
MaxMetadata == 2
\* longest content before the 8-byte trailer of a store file drawn for the
\* footer reads
MaxFooterBody == 3

Threads == {"t1", "t2"}

---------------------------------------------------------------------------
(* Bytes, integers and strings *)

\* the integers of the checker are 32 bit wide: a 64-bit value of 2^24 or
\* more (larger than every file and count of the model) is held as Huge
Huge == 2 ^ 30

\* u64::to_le_bytes for values below 2^24 (the upper five bytes are zero)
to_le_bytes_u64(n) ==
    [i \in 1..8 |-> IF i <= 3 THEN (n \div (256 ^ (i - 1))) % 256 ELSE 0]

\* u32 in bincode's fixed-width little-endian encoding, values below 2^24
to_le_bytes_u32(n) ==
    [i \in 1..4 |-> IF i <= 3 THEN (n \div (256 ^ (i - 1))) % 256 ELSE 0]

\* u64::from_le_bytes
from_le_bytes_u64(b) ==
    IF \E i \in 4..8 : b[i] # 0 THEN Huge
    ELSE b[1] + 256 * b[2] + 65536 * b[3]

Hex == <<"0", "1", "2", "3", "4", "5", "6", "7", "8", "9",
         "a", "b", "c", "d", "e", "f">>

Lower == <<"a", "b", "c", "d", "e", "f", "g", "h", "i", "j", "k", "l", "m",
           "n", "o", "p", "q", "r", "s", "t", "u", "v", "w", "x", "y", "z">>

\* UTF-8 code of the ASCII characters that occur in file names, uuid
\* strings and field names
CharCode(c) ==
    IF c = "-" THEN 45
    ELSE IF c = "." THEN 46
    ELSE IF \E i \in 1..10 : Hex[i] = c
         THEN 47 + (CHOOSE j \in 1..10 : Hex[j] = c)
    ELSE IF \E i \in 1..26 : Lower[i] = c
         THEN 96 + (CHOOSE j \in 1..26 : Lower[j] = c)
    ELSE 95

\* a character outside ASCII: U+00E9, two bytes in UTF-8
EAcute == "U+00E9"

\* the UTF-8 encoding of a character
utf8(c) == IF c = EAcute THEN <<195, 169>> ELSE <<CharCode(c)>>

RECURSIVE as_bytes(_)
\* String::as_bytes
as_bytes(s) == IF s = <<>> THEN <<>> ELSE utf8(Head(s)) \o as_bytes(Tail(s))

\* str::len: the length in bytes
str_len(s) == Len(as_bytes(s))

\* str::ends_with
ends_with(s, suffix) ==
    /\ Len(s) >= Len(suffix)
    /\ SubSeq(s, Len(s) - Len(suffix) + 1, Len(s)) = suffix

\* the hyphenated 36-character form of a uuid, here one hex digit repeated
uuid_string(c) == [i \in 1..36 |-> IF i \in {9, 14, 19, 24} THEN "-" ELSE c]

DotStore == <<".", "s", "t", "o", "r", "e">>
DotTerm == <<".", "t", "e", "r", "m">>
DotIdx == <<".", "i", "d", "x">>
DotFast == <<".", "f", "a", "s", "t">>
DotPos == <<".", "p", "o", "s">>
DotFieldnorm == <<".", "f", "i", "e", "l", "d", "n", "o", "r", "m">>
DotDel == <<".", "d", "e", "l">>

\* split_generator.rs:233 the extensions of a segment's files, in order
extensions == <<DotStore, DotTerm, DotIdx, DotFast, DotPos, DotFieldnorm, DotDel>>

RECURSIVE Flatten(_)
Flatten(ss) == IF ss = <<>> THEN <<>> ELSE Head(ss) \o Flatten(Tail(ss))

RECURSIVE SumSizes(_, _)
SumSizes(f, names) ==
    IF names = {} THEN 0
    ELSE LET n == CHOOSE x \in names : TRUE
         IN Len(f[n]) + SumSizes(f, names \ {n})

---------------------------------------------------------------------------
(* The file system: path -> entry.  An entry is absent, a regular file, or *)
(* a directory holding regular files (file name -> content).               *)

EmptyFiles == [n \in {} |-> <<>>]
NoEntry == [kind |-> "none", files |-> EmptyFiles]
FileEntry == [kind |-> "file", files |-> EmptyFiles]
DirEntry(files) == [kind |-> "dir", files |-> files]

\* fs::write / fs::copy: create or replace one file of a directory
WriteFile(files, name, content) ==
    [n \in DOMAIN files \cup {name} |-> IF n = name THEN content ELSE files[n]]

\* the entries of a directory whose name ends with the given suffix
FilesEndingWith(files, suffix) == {n \in DOMAIN files : ends_with(n, suffix)}

\* the working directory, from which copy_segment_files reads ("." at
\* split_generator.rs:213)
Cwd == "."

---------------------------------------------------------------------------
(* hotcache.rs: HotcacheInfo and its bincode encoding *)

\* bincode: a string is its length in bytes as u64 followed by its bytes
bincode_string(s) == to_le_bytes_u64(str_len(s)) \o as_bytes(s)

\* bincode: a map is its number of entries as u64 followed by the entries
bincode_string_map(m) ==
    to_le_bytes_u64(Len(m))
    \o Flatten([i \in 1..Len(m) |-> bincode_string(m[i][1]) \o bincode_string(m[i][2])])

\* hotcache.rs:40 HotcacheInfo::new
HotcacheInfo_new(split_id, num_docs, size_bytes) ==
    [split_id |-> split_id, num_docs |-> num_docs, size_bytes |-> size_bytes,
     byte_range_start |-> 0, byte_range_end |-> 0, metadata |-> <<>>]

\* hotcache.rs:76
create_hotcache(split_id, num_docs, size_bytes) ==
    HotcacheInfo_new(split_id, num_docs, size_bytes)

\* to_bytes with the two ends of the byte range in the other order
HotcacheInfo_to_bytes_swapped(h) ==
    bincode_string(h.split_id)
    \o to_le_bytes_u32(h.num_docs)
    \o to_le_bytes_u64(h.size_bytes)
    \o to_le_bytes_u64(h.byte_range_end)
    \o to_le_bytes_u64(h.byte_range_start)
    \o bincode_string_map(h.metadata)

\* hotcache.rs:63 HotcacheInfo::to_bytes: the fields in declaration order
HotcacheInfo_to_bytes(h) ==
    bincode_string(h.split_id)
    \o to_le_bytes_u32(h.num_docs)
    \o to_le_bytes_u64(h.size_bytes)
    \o to_le_bytes_u64(h.byte_range_start)
    \o to_le_bytes_u64(h.byte_range_end)
    \o bincode_string_map(h.metadata)

\* String::from_utf8 on the bytes of a string: <<>> when they are not
\* UTF-8, else <<string>>.  Of the ASCII characters only those of CharCode
\* occur in the values of the model; any other is read as "?"
RECURSIVE from_utf8(_)
from_utf8(bytes) ==
    IF bytes = <<>> THEN << <<>> >>
    ELSE LET b == Head(bytes)
         IN IF b < 128
            THEN LET rest == from_utf8(Tail(bytes))
                     c == IF b = 45 THEN "-"
                          ELSE IF b = 46 THEN "."
                          ELSE IF b \in 48..57 THEN Hex[b - 47]
                          ELSE IF b \in 97..122 THEN Lower[b - 96]
                          ELSE "?"
                 IN IF rest = <<>> THEN <<>> ELSE << <<c>> \o rest[1] >>
            ELSE IF b = 195 /\ Len(bytes) >= 2 /\ bytes[2] = 169
            THEN LET rest == from_utf8(Tail(Tail(bytes)))
                 IN IF rest = <<>> THEN <<>> ELSE << <<EAcute>> \o rest[1] >>
            ELSE <<>>

\* bincode reads: [ok, value, next] from position pos of data
ReadFail == [ok |-> FALSE, value |-> 0, next |-> 0]

read_u64(data, pos) ==
    IF pos + 7 > Len(data) THEN ReadFail
    ELSE [ok |-> TRUE, value |-> from_le_bytes_u64(SubSeq(data, pos, pos + 7)),
          next |-> pos + 8]

read_u32(data, pos) ==
    IF pos + 3 > Len(data) THEN ReadFail
    ELSE [ok |-> TRUE,
          value |-> from_le_bytes_u64(SubSeq(data, pos, pos + 3) \o <<0, 0, 0, 0>>),
          next |-> pos + 4]

read_string(data, pos) ==
    LET len == read_u64(data, pos)
    IN IF ~len.ok \/ len.value = Huge \/ len.next + len.value - 1 > Len(data)
       THEN ReadFail
       ELSE LET str == from_utf8(SubSeq(data, len.next, len.next + len.value - 1))
            IN IF str = <<>> THEN ReadFail
               ELSE [ok |-> TRUE, value |-> str[1], next |-> len.next + len.value]

\* HashMap::insert on the entries in iteration order
hash_map_insert(m, k, v) ==
    IF \E i \in 1..Len(m) : m[i][1] = k
    THEN [i \in 1..Len(m) |-> IF m[i][1] = k THEN <<k, v>> ELSE m[i]]
    ELSE Append(m, <<k, v>>)

\* bincode reads count entries of a map of strings into a HashMap
RECURSIVE read_string_map_entries(_, _, _, _)
read_string_map_entries(data, pos, count, m) ==
    IF count = 0 THEN [ok |-> TRUE, value |-> m, next |-> pos]
    ELSE LET k == read_string(data, pos)
         IN IF ~k.ok THEN ReadFail
            ELSE LET v == read_string(data, k.next)
                 IN IF ~v.ok THEN ReadFail
                    ELSE read_string_map_entries(data, v.next, count - 1,
                                                 hash_map_insert(m, k.value, v.value))

read_string_map(data, pos) ==
    LET count == read_u64(data, pos)
    IN IF ~count.ok \/ count.value > Len(data) THEN ReadFail
       ELSE read_string_map_entries(data, count.next, count.value, <<>>)

\* hotcache.rs:69 HotcacheInfo::from_bytes: bincode::deserialize reads the
\* fields in declaration order and ignores bytes after the last field
HotcacheInfo_from_bytes(data) ==
    LET Err == [ok |-> FALSE, err |-> "Serialization", info |-> <<>>]
        split_id == read_string(data, 1)
    IN IF ~split_id.ok THEN Err ELSE
       LET num_docs == read_u32(data, split_id.next)
       IN IF ~num_docs.ok THEN Err ELSE
       LET size_bytes == read_u64(data, num_docs.next)
       IN IF ~size_bytes.ok THEN Err ELSE
       LET byte_range_start == read_u64(data, size_bytes.next)
       IN IF ~byte_range_start.ok THEN Err ELSE
       LET byte_range_end == read_u64(data, byte_range_start.next)
       IN IF ~byte_range_end.ok THEN Err ELSE
       LET metadata == read_string_map(data, byte_range_end.next)
       IN IF ~metadata.ok THEN Err ELSE
          [ok |-> TRUE, err |-> "",
           info |-> << [split_id |-> split_id.value, num_docs |-> num_docs.value,
                        size_bytes |-> size_bytes.value,
                        byte_range_start |-> byte_range_start.value,
                        byte_range_end |-> byte_range_end.value,
                        metadata |-> metadata.value] >>]

---------------------------------------------------------------------------
(* The reader-side Hotcache type.  split_reader.rs and split_generator.rs  *)
(* use crate::hotcache::Hotcache (empty, serialize, deserialize,           *)
(* field_metadata) and ByteRange, which hotcache.rs does not define; they  *)
(* are modelled from the data model and the footer format of the           *)
(* specification: a length-prefixed encoding of the fields in order.       *)

ByteRange(start, end) == [start |-> start, end |-> end]

\* an optional range is <<>> (None) or <<r>> (Some(r)): a tag byte, then r
bincode_option_range(o) ==
    IF o = <<>> THEN <<0>>
    ELSE <<1>> \o to_le_bytes_u64(o[1].start) \o to_le_bytes_u64(o[1].end)

bincode_field_metadata(fm) ==
    to_le_bytes_u64(Len(fm))
    \o Flatten([i \in 1..Len(fm) |->
                   bincode_string(fm[i].name)
                   \o bincode_option_range(fm[i].posting_range)
                   \o bincode_option_range(fm[i].fast_field_range)])

Hotcache_empty(schema) ==
    [split_id |-> <<>>, num_docs |-> 0, size_bytes |-> 0,
     byte_range |-> ByteRange(0, 0), metadata |-> <<>>,
     schema_hash |-> schema, field_metadata |-> <<>>]

Hotcache_serialize(h) ==
    bincode_string(h.split_id)
    \o to_le_bytes_u32(h.num_docs)
    \o to_le_bytes_u64(h.size_bytes)
    \o to_le_bytes_u64(h.byte_range.start)
    \o to_le_bytes_u64(h.byte_range.end)
    \o bincode_string_map(h.metadata)
    \o bincode_string(h.schema_hash)
    \o bincode_field_metadata(h.field_metadata)

\* the schemas of the indices of the model, named by their hash string
Schemas == {<<"a">>, <<"b">>}

\* a split with one indexed, fast field "f" and one indexed field "d"
SampleHotcache ==
    [split_id |-> <<"9">>, num_docs |-> 2, size_bytes |-> 64,
     byte_range |-> ByteRange(0, 0), metadata |-> <<>>,
     schema_hash |-> <<"a">>,
     field_metadata |->
        << [name |-> <<"f">>,
            posting_range |-> << ByteRange(0, 8) >>,
            fast_field_range |-> << ByteRange(0, 16) >>],
           [name |-> <<"d">>,
            posting_range |-> << ByteRange(8, 16) >>,
            fast_field_range |-> <<>>] >>]

\* a hotcache whose one field has fast field data and no posting data
SparseHotcache ==
    [SampleHotcache EXCEPT
        !.field_metadata =
            << [name |-> <<"p">>,
                posting_range |-> <<>>,
                fast_field_range |-> << ByteRange(0, 8) >>] >>]

\* the Hotcache values of the model
HotcacheUniverse ==
    {Hotcache_empty(s) : s \in Schemas} \cup {SampleHotcache, SparseHotcache}

\* Hotcache::deserialize: the value whose encoding the bytes are, or a
\* Serialization error when they encode none
SerializedUniverse == {<<Hotcache_serialize(h), h>> : h \in HotcacheUniverse}

Hotcache_deserialize(data) ==
    IF \E e \in SerializedUniverse : e[1] = data
    THEN [ok |-> TRUE, err |-> "",
          hotcache |-> << (CHOOSE e \in SerializedUniverse : e[1] = data)[2] >>]
    ELSE [ok |-> FALSE, err |-> "Serialization", hotcache |-> <<>>]


---------------------------------------------------------------------------
(* split_generator.rs: QuickwitSplitGenerator.  An index is a schema and a *)
(* sequence of segments [id, num_docs, max_doc]; id is the hex digit that  *)
(* uuid_string expands.  The index library's own calls are taken to        *)
(* succeed.                                                                *)

\* the uuids Uuid::new_v4 draws from
FreshUuids == {"a", "b", "c"}

NoMetadata == [split_id |-> <<>>, num_docs |-> 0, size_bytes |-> 0,
               hotcache_start |-> 0, hotcache_end |-> 0]

\* Result<SplitMetadata> together with the file system the call leaves
GenOk(meta, f) == [ok |-> TRUE, err |-> "", meta |-> meta, fs |-> f]
GenErr(e, f) == [ok |-> FALSE, err |-> e, meta |-> NoMetadata, fs |-> f]

\* split_generator.rs:54 QuickwitSplitGenerator::new
QuickwitSplitGenerator_new(index, target_docs_per_split) ==
    IF target_docs_per_split = 0
    THEN [ok |-> FALSE, err |-> "InvalidOperation", generator |-> <<>>]
    ELSE [ok |-> TRUE, err |-> "",
          generator |-> << [index |-> index,
                            target_docs_per_split |-> target_docs_per_split] >>]

\* split_generator.rs:109
get_all_segments(index) == [i \in 1..Len(index.segments) |-> index.segments[i].id]

\* split_generator.rs:120: one segment is returned as it is; for several,
\* the writer is committed and the first segment id is returned
merge_segments(index, segment_ids) == segment_ids[1]

\* searcher.num_docs(): the documents of all segments
RECURSIVE searcher_num_docs(_)
searcher_num_docs(segments) ==
    IF segments = <<>> THEN 0
    ELSE Head(segments).num_docs + searcher_num_docs(Tail(segments))

\* split_generator.rs:157
estimate_segment_size(index, segment_id) ==
    IF \E i \in 1..Len(index.segments) : index.segments[i].id = segment_id
    THEN LET sr == index.segments[CHOOSE i \in 1..Len(index.segments) :
                                     index.segments[i].id = segment_id]
         IN (sr.num_docs * 1024) + (sr.num_docs * 512) + (sr.max_doc * 256)
    ELSE searcher_num_docs(index.segments) * 2048

\* split_generator.rs:144
generate_hotcache(index, segment_id) ==
    create_hotcache(uuid_string(segment_id), searcher_num_docs(index.segments),
                    estimate_segment_size(index, segment_id))

\* split_generator.rs:231
list_segment_files(segment_id) ==
    [i \in 1..Len(extensions) |-> uuid_string(segment_id) \o extensions[i]]

\* split_generator.rs:210: every file of the segment that exists in the
\* working directory is copied into output_path, replacing a file of that name
RECURSIVE copy_files(_, _, _)
copy_files(names, src, dst) ==
    IF names = <<>> THEN dst
    ELSE copy_files(Tail(names), src,
                    IF Head(names) \in DOMAIN src
                    THEN WriteFile(dst, Head(names), src[Head(names)])
                    ELSE dst)

\* copy_segment_files that copies no file
copy_segment_files_none(segment_id, output_path, f) == f

copy_segment_files(segment_id, output_path, f) ==
    [f EXCEPT ![output_path] =
        DirEntry(copy_files(list_segment_files(segment_id),
                            f[Cwd].files, f[output_path].files))]

\* embed_hotcache that opens the store file for writing from its start
\* instead of appending
embed_hotcache_overwriting(output_path, hotcache, f) ==
    LET hotcache_data == HotcacheInfo_to_bytes(hotcache)
        store_files == FilesEndingWith(f[output_path].files, DotStore)
    IN IF store_files = {}
       THEN {[ok |-> FALSE, err |-> "InvalidSplit", start |-> 0, end |-> 0, fs |-> f]}
       ELSE {LET hotcache_start == Len(f[output_path].files[store_file])
             IN [ok |-> TRUE, err |-> "",
                 start |-> hotcache_start,
                 end |-> hotcache_start + Len(hotcache_data),
                 fs |-> [f EXCEPT ![output_path].files[store_file] =
                           hotcache_data
                           \o SubSeq(@, Len(hotcache_data) + 1, Len(@))]]
             : store_file \in store_files}

\* split_generator.rs:246: the outcomes of embed_hotcache, one per store
\* file read_dir may list first: [ok, err, start, end, fs]
embed_hotcache(output_path, hotcache, f) ==
    LET hotcache_data == HotcacheInfo_to_bytes(hotcache)
        store_files == FilesEndingWith(f[output_path].files, DotStore)
    IN IF store_files = {}
       THEN {[ok |-> FALSE, err |-> "InvalidSplit", start |-> 0, end |-> 0, fs |-> f]}
       ELSE {LET hotcache_start == Len(f[output_path].files[store_file])
             IN [ok |-> TRUE, err |-> "",
                 start |-> hotcache_start,
                 end |-> hotcache_start + Len(hotcache_data),
                 fs |-> [f EXCEPT ![output_path].files[store_file] = @ \o hotcache_data]]
             : store_file \in store_files}

\* split_generator.rs:287
calculate_split_size(output_path, f) ==
    SumSizes(f[output_path].files, DOMAIN f[output_path].files)

\* split_generator.rs:302
count_documents(index, segment_id) ==
    IF \E i \in 1..Len(index.segments) : index.segments[i].id = segment_id
    THEN [ok |-> TRUE, err |-> "",
          num_docs |-> index.segments[CHOOSE i \in 1..Len(index.segments) :
                                         index.segments[i].id = segment_id].num_docs]
    ELSE [ok |-> FALSE, err |-> "InvalidOperation", num_docs |-> 0]

\* split_generator.rs:317: the store file is named by one fresh uuid and
\* the split by another
create_empty_split(index, output_path, f) ==
    LET hotcache_data == Hotcache_serialize(Hotcache_empty(index.schema))
    IN {GenOk([split_id |-> uuid_string(id_uuid), num_docs |-> 0,
               size_bytes |-> Len(hotcache_data),
               hotcache_start |-> 0, hotcache_end |-> Len(hotcache_data)],
              [f EXCEPT ![output_path].files =
                  WriteFile(@, uuid_string(file_uuid) \o DotStore, hotcache_data)])
        : file_uuid \in {u \in FreshUuids :
                            uuid_string(u) \o DotStore \notin DOMAIN f[output_path].files},
          id_uuid \in FreshUuids}

\* split_generator.rs:68: the outcomes of generate_split
generate_split(generator, output_path, f) ==
    IF f[output_path].kind = "file"
    THEN {GenErr("Io", f)}
    ELSE
    LET f1 == IF f[output_path].kind = "none"
              THEN [f EXCEPT ![output_path] = DirEntry(EmptyFiles)] ELSE f
        index == generator.index
        segment_ids == get_all_segments(index)
    IN IF segment_ids = <<>>
       THEN create_empty_split(index, output_path, f1)
       ELSE
       LET merged_segment_id == merge_segments(index, segment_ids)
           hotcache == generate_hotcache(index, merged_segment_id)
           f2 == copy_segment_files(merged_segment_id, output_path, f1)
           docs == count_documents(index, merged_segment_id)
       IN {IF ~e.ok THEN GenErr(e.err, e.fs)
           ELSE IF ~docs.ok THEN GenErr(docs.err, e.fs)
           ELSE GenOk([split_id |-> uuid_string(merged_segment_id),
                       num_docs |-> docs.num_docs,
                       size_bytes |-> calculate_split_size(output_path, e.fs),
                       hotcache_start |-> e.start,
                       hotcache_end |-> e.end], e.fs)
           : e \in embed_hotcache(output_path, hotcache, f2)}

---------------------------------------------------------------------------
(* split_reader.rs: QuickwitSplitReader *)

\* read_hotcache_from_footer without the lower limit on the size it reads
read_hotcache_from_footer_no_minimum(content) ==
    LET file_size == Len(content)
    IN IF file_size < 8
       THEN [ok |-> FALSE, err |-> "InvalidSplit", data |-> <<>>]
       ELSE
       LET hotcache_size == from_le_bytes_u64(SubSeq(content, file_size - 7, file_size))
       IN IF hotcache_size > file_size
          THEN [ok |-> FALSE, err |-> "InvalidSplit", data |-> <<>>]
          ELSE
          LET hotcache_start == file_size - hotcache_size
          IN [ok |-> TRUE, err |-> "",
              data |-> SubSeq(content, hotcache_start + 1,
                              hotcache_start + (hotcache_size - 8))]

\* split_reader.rs:165: Result<Vec<u8>> of reading the footer of a store
\* file with the given content
read_hotcache_from_footer(content) ==
    LET file_size == Len(content)
    IN IF file_size < 8
       THEN [ok |-> FALSE, err |-> "InvalidSplit", data |-> <<>>]
       ELSE
       LET hotcache_size == from_le_bytes_u64(SubSeq(content, file_size - 7, file_size))
       IN IF hotcache_size > file_size \/ hotcache_size < 8
          THEN [ok |-> FALSE, err |-> "InvalidSplit", data |-> <<>>]
          ELSE
          LET hotcache_start == file_size - hotcache_size
          IN [ok |-> TRUE, err |-> "",
              data |-> SubSeq(content, hotcache_start + 1,
                              hotcache_start + (hotcache_size - 8))]

\* split_reader.rs:63 load_hotcache on a store file: footer, then parse
load_hotcache(content) ==
    LET hotcache_data == read_hotcache_from_footer(content)
    IN IF ~hotcache_data.ok
       THEN [ok |-> FALSE, err |-> hotcache_data.err, hotcache |-> <<>>]
       ELSE Hotcache_deserialize(hotcache_data.data)

\* open that keeps the reader when the hotcache cannot be loaded
QuickwitSplitReader_open_lazy(split_path, f) ==
    IF f[split_path].kind # "dir"
    THEN {[ok |-> FALSE, err |-> "InvalidSplit", reader |-> <<>>]}
    ELSE
    LET store_files == FilesEndingWith(f[split_path].files, DotStore)
    IN IF store_files = {}
       THEN {[ok |-> FALSE, err |-> "InvalidSplit", reader |-> <<>>]}
       ELSE {[ok |-> TRUE, err |-> "",
              reader |-> << [split_path |-> split_path,
                             hotcache |-> load_hotcache(
                                             f[split_path].files[store_file]).hotcache] >>]
             : store_file \in store_files}

\* open without the checks of the path: read_dir reports the bad path
QuickwitSplitReader_open_unchecked(split_path, f) ==
    IF f[split_path].kind # "dir"
    THEN {[ok |-> FALSE, err |-> "Io", reader |-> <<>>]}
    ELSE
    LET store_files == FilesEndingWith(f[split_path].files, DotStore)
    IN IF store_files = {}
       THEN {[ok |-> FALSE, err |-> "InvalidSplit", reader |-> <<>>]}
       ELSE {LET h == load_hotcache(f[split_path].files[store_file])
             IN IF h.ok
                THEN [ok |-> TRUE, err |-> "",
                      reader |-> << [split_path |-> split_path,
                                     hotcache |-> h.hotcache] >>]
                ELSE [ok |-> FALSE, err |-> h.err, reader |-> <<>>]
             : store_file \in store_files}

\* split_reader.rs:38 QuickwitSplitReader::open: the outcomes, one per
\* store file read_dir may list first (split_reader.rs:149 find_store_file)
QuickwitSplitReader_open(split_path, f) ==
    IF f[split_path].kind # "dir"
    THEN {[ok |-> FALSE, err |-> "InvalidSplit", reader |-> <<>>]}
    ELSE
    LET store_files == FilesEndingWith(f[split_path].files, DotStore)
    IN IF store_files = {}
       THEN {[ok |-> FALSE, err |-> "InvalidSplit", reader |-> <<>>]}
       ELSE {LET h == load_hotcache(f[split_path].files[store_file])
             IN IF h.ok
                THEN [ok |-> TRUE, err |-> "",
                      reader |-> << [split_path |-> split_path,
                                     hotcache |-> h.hotcache] >>]
                ELSE [ok |-> FALSE, err |-> h.err, reader |-> <<>>]
             : store_file \in store_files}

\* split_reader.rs:77
get_hotcache_info(reader) == reader.hotcache

\* split_reader.rs:219 is_segment_file: a known extension, and before it a
\* prefix of prefix.len() == 36 with four '-' among its chars
is_segment_file(filename) ==
    \E i \in 1..Len(extensions) :
        /\ ends_with(filename, extensions[i])
        /\ LET prefix == SubSeq(filename, 1, Len(filename) - Len(extensions[i]))
           IN /\ str_len(prefix) = 36
              /\ Cardinality({j \in 1..Len(prefix) : prefix[j] = "-"}) = 4

\* the order of String: byte by byte, a proper prefix first
RECURSIVE bytes_less(_, _)
bytes_less(a, b) ==
    IF b = <<>> THEN FALSE
    ELSE IF a = <<>> THEN TRUE
    ELSE IF Head(a) # Head(b) THEN Head(a) < Head(b)
    ELSE bytes_less(Tail(a), Tail(b))

\* Vec<String>::sort of distinct names
RECURSIVE sort(_)
sort(names) ==
    IF names = {} THEN <<>>
    ELSE LET least == CHOOSE n \in names :
                         \A o \in names \ {n} : bytes_less(as_bytes(n), as_bytes(o))
         IN <<least>> \o sort(names \ {least})

\* split_reader.rs:82 list_segment_files of a reader: the entries of the
\* split directory that is_segment_file accepts, sorted
reader_list_segment_files(reader, f) ==
    IF f[reader.split_path].kind # "dir"
    THEN [ok |-> FALSE, err |-> "Io", files |-> <<>>]
    ELSE [ok |-> TRUE, err |-> "",
          files |-> sort({n \in DOMAIN f[reader.split_path].files : is_segment_file(n)})]

\* split_reader.rs:203 find_file_with_extension: the entries read_dir may
\* list first among those that end with the extension
find_file_with_extension(split_path, extension, f) ==
    IF f[split_path].kind # "dir"
    THEN [ok |-> FALSE, err |-> "Io", found |-> {}]
    ELSE LET found == FilesEndingWith(f[split_path].files, extension)
         IN IF found = {}
            THEN [ok |-> FALSE, err |-> "InvalidSplit", found |-> {}]
            ELSE [ok |-> TRUE, err |-> "", found |-> found]

\* HashMap::get on field_metadata: <<>> (None) or <<entry>>
field_metadata_get(hotcache, field) ==
    LET fm == hotcache.field_metadata
    IN IF \E i \in 1..Len(fm) : fm[i].name = field
       THEN << fm[CHOOSE i \in 1..Len(fm) : fm[i].name = field] >>
       ELSE <<>>

\* split_reader.rs:238 read_posting_list_from_range
read_posting_list_from_range(term) ==
    IF term = "test" \/ term = "quickwit" THEN <<1, 5, 10, 15>> ELSE <<>>

\* read_posting_list without the test for posting data
read_posting_list_any_field(reader, field, term, f) ==
    IF reader.hotcache = <<>>
    THEN [ok |-> FALSE, err |-> "InvalidOperation", docs |-> <<>>]
    ELSE IF field_metadata_get(reader.hotcache[1], field) = <<>>
    THEN [ok |-> FALSE, err |-> "FieldError", docs |-> <<>>]
    ELSE LET term_file == find_file_with_extension(reader.split_path, DotTerm, f)
         IN IF ~term_file.ok
            THEN [ok |-> FALSE, err |-> term_file.err, docs |-> <<>>]
            ELSE [ok |-> TRUE, err |-> "", docs |-> read_posting_list_from_range(term)]

\* split_reader.rs:100 read_posting_list: [ok, err, docs]
read_posting_list(reader, field, term, f) ==
    IF reader.hotcache = <<>>
    THEN [ok |-> FALSE, err |-> "InvalidOperation", docs |-> <<>>]
    ELSE
    LET field_metadata == field_metadata_get(reader.hotcache[1], field)
    IN IF field_metadata = <<>>
       THEN [ok |-> FALSE, err |-> "FieldError", docs |-> <<>>]
       ELSE IF field_metadata[1].posting_range = <<>>
       THEN [ok |-> FALSE, err |-> "FieldError", docs |-> <<>>]
       ELSE
       LET term_file == find_file_with_extension(reader.split_path, DotTerm, f)
       IN IF ~term_file.ok
          THEN [ok |-> FALSE, err |-> term_file.err, docs |-> <<>>]
          ELSE [ok |-> TRUE, err |-> "", docs |-> read_posting_list_from_range(term)]

\* u64 addition on little-endian bytes, with the carry out of the top byte
RECURSIVE add_le(_, _, _)
add_le(a, b, carry) ==
    IF a = <<>> THEN [bytes |-> <<>>, overflow |-> carry = 1]
    ELSE LET sum == Head(a) + Head(b) + carry
             rest == add_le(Tail(a), Tail(b), sum \div 256)
         IN [bytes |-> <<sum % 256>> \o rest.bytes, overflow |-> rest.overflow]

u64_add(a, b) == add_le(a, b, 0)

\* a u64 below 2^61 times 8
u64_times_8(a) ==
    LET a2 == u64_add(a, a).bytes
        a4 == u64_add(a2, a2).bytes
    IN u64_add(a4, a4).bytes

\* u32 end - start as u64: [bytes, overflow]; below zero the difference
\* wraps to 2^32 - (start - end)
u32_sub(end, start) ==
    IF end >= start
    THEN [bytes |-> to_le_bytes_u64(end - start), overflow |-> FALSE]
    ELSE [bytes |-> [i \in 1..8 |->
                       IF i <= 4
                       THEN 255 - to_le_bytes_u64(start - end - 1)[i]
                       ELSE 0],
          overflow |-> TRUE]

\* split_reader.rs:254 calculate_doc_range_bytes on a base range of u64
\* bytes and a doc range of u32: the outcomes [panic, range].  Where the
\* arithmetic overflows, a build with overflow checks panics and a build
\* without them wraps.
calculate_doc_range_bytes(base_range, doc_range) ==
    LET doc_count == u32_sub(doc_range.end, doc_range.start)
        start_offset == u64_times_8(to_le_bytes_u64(doc_range.start))
        size == u64_times_8(doc_count.bytes)
        start == u64_add(base_range.start, start_offset)
        mid == u64_add(base_range.start, start_offset)
        end == u64_add(mid.bytes, size)
        wrapped == [panic |-> FALSE,
                    range |-> ByteRange(start.bytes, end.bytes)]
    IN IF doc_count.overflow \/ start.overflow \/ end.overflow
       THEN {[panic |-> TRUE, range |-> ByteRange(<<>>, <<>>)], wrapped}
       ELSE {wrapped}

\* u64 subtraction on little-endian bytes, with the borrow out of the top byte
RECURSIVE sub_le(_, _, _)
sub_le(a, b, borrow) ==
    IF a = <<>> THEN [bytes |-> <<>>, overflow |-> borrow = 1]
    ELSE LET diff == Head(a) - Head(b) - borrow
             rest == sub_le(Tail(a), Tail(b), IF diff < 0 THEN 1 ELSE 0)
         IN [bytes |-> <<(diff + 256) % 256>> \o rest.bytes, overflow |-> rest.overflow]

\* ByteRange::size: end - start
ByteRange_size(range) == sub_le(range.end, range.start, 0)

ReadOk(data) == [ok |-> TRUE, err |-> "", data |-> data]
ReadErr(e) == [ok |-> FALSE, err |-> e, data |-> <<>>]

\* split_reader.rs:269 read_byte_range on a file of the given content: the
\* outcomes.  The buffer is allocated for the whole size and read_exact
\* fails when the file ends before the buffer is full; an allocation of
\* 2^32 bytes or more may also abort the process.  Seeking beyond the end
\* of the file succeeds, seeking to 2^63 or more fails.
read_byte_range(content, range) ==
    LET size == ByteRange_size(range)
        start == from_le_bytes_u64(range.start)
        len == from_le_bytes_u64(size.bytes)
        read == IF range.start[8] >= 128 THEN {ReadErr("Io")}
                ELSE IF len = 0 THEN {ReadOk(<<>>)}
                ELSE IF start < Huge /\ len < Huge /\ start + len <= Len(content)
                THEN {ReadOk(SubSeq(content, start + 1, start + len))}
                ELSE {ReadErr("Io")}
                     \cup (IF \E i \in 5..8 : size.bytes[i] # 0
                           THEN {ReadErr("Abort")} ELSE {})
    IN IF size.overflow THEN {ReadErr("Panic")} \cup read ELSE read

\* get_fast_field_data that looks for the fast field file before it looks
\* at the field
get_fast_field_data_file_first(reader, field, doc_range, f) ==
    IF reader.hotcache = <<>>
    THEN {ReadErr("InvalidOperation")}
    ELSE
    LET field_metadata == field_metadata_get(reader.hotcache[1], field)
        fast_file == find_file_with_extension(reader.split_path, DotFast, f)
    IN IF ~fast_file.ok
       THEN {ReadErr(fast_file.err)}
       ELSE IF field_metadata = <<>>
       THEN {ReadErr("FieldError")}
       ELSE IF field_metadata[1].fast_field_range = <<>>
       THEN {ReadErr("FieldError")}
       ELSE
       LET fast_field_range == field_metadata[1].fast_field_range[1]
       IN UNION {IF r.panic THEN {ReadErr("Panic")}
                 ELSE read_byte_range(f[reader.split_path].files[file], r.range)
                 : r \in calculate_doc_range_bytes(
                            ByteRange(to_le_bytes_u64(fast_field_range.start),
                                      to_le_bytes_u64(fast_field_range.end)),
                            doc_range),
                   file \in fast_file.found}

\* split_reader.rs:123 get_fast_field_data: the outcomes [ok, err, data]
get_fast_field_data(reader, field, doc_range, f) ==
    IF reader.hotcache = <<>>
    THEN {ReadErr("InvalidOperation")}
    ELSE
    LET field_metadata == field_metadata_get(reader.hotcache[1], field)
    IN IF field_metadata = <<>>
       THEN {ReadErr("FieldError")}
       ELSE IF field_metadata[1].fast_field_range = <<>>
       THEN {ReadErr("FieldError")}
       ELSE
       LET fast_field_range == field_metadata[1].fast_field_range[1]
           fast_file == find_file_with_extension(reader.split_path, DotFast, f)
       IN IF ~fast_file.ok
          THEN {ReadErr(fast_file.err)}
          ELSE UNION {IF r.panic THEN {ReadErr("Panic")}
                      ELSE read_byte_range(f[reader.split_path].files[file], r.range)
                      : r \in calculate_doc_range_bytes(
                                 ByteRange(to_le_bytes_u64(fast_field_range.start),
                                           to_le_bytes_u64(fast_field_range.end)),
                                 doc_range),
                        file \in fast_file.found}


---------------------------------------------------------------------------
(* lib.rs: the handle counter, the two registries and their mutexes *)

\* a fetch_add that hands out the value before the counter's
fetch_add_one_less(counter) == [returned |-> counter - 1, stored |-> counter + 1]

\* fetch_add with the new value returned instead of the previous one
fetch_add_returns_new(counter) == [returned |-> counter + 1, stored |-> counter + 1]

\* a load in place of fetch_add: the counter is never advanced
fetch_add_no_store(counter) == [returned |-> counter, stored |-> counter]

\* AtomicI64::fetch_add(1, SeqCst) at lib.rs:51: the value returned and the
\* value stored
fetch_add(counter) == [returned |-> counter, stored |-> counter + 1]

\* a lock that never waits
CanLock_never_waits(holders) == TRUE

\* Mutex::lock returns once no thread is inside the mutex
CanLock(holders) == holders = {}

\* the guard dropped as soon as the lookup is done
HoldGuard_dropped(holders, t) == holders

\* the guard of a locked registry is bound for the rest of the function
\* (jni_bridge.rs:236, jni_bridge.rs:324; the Some(registry) of lib.rs:66
\* and lib.rs:90)
HoldGuard(holders, t) == holders \cup {t}

\* registry.insert(handle, Box::new(object)) at lib.rs:58 and lib.rs:82
registry_insert(m, k, v) == [x \in DOMAIN m \cup {k} |-> IF x = k THEN v ELSE m[x]]

\* remove that reports the entry and leaves it in the map
registry_remove_keeps(m, k) == [map |-> m, is_some |-> k \in DOMAIN m]

\* remove that reports whether the key was absent
registry_remove_is_none(m, k) ==
    [map |-> [x \in DOMAIN m \ {k} |-> m[x]], is_some |-> k \notin DOMAIN m]

\* registry.remove(&handle).is_some() at lib.rs:75 and lib.rs:99: the map
\* left behind and the bool returned
registry_remove(m, k) ==
    [map |-> [x \in DOMAIN m \ {k} |-> m[x]], is_some |-> k \in DOMAIN m]

\* a thread's locals: the call, its handle and other arguments, the object
\* it is registering, and what the call returned: ret (a jlong, or a bool
\* as 0/1), res (<<>> for null or nothing, else <<value>>) and the error
\* thrown ("" for none)
Loc(op, handle, args, obj, ret, res, err) ==
    [op |-> op, handle |-> handle, args |-> args, obj |-> obj,
     ret |-> ret, res |-> res, err |-> err]

NoCall == Loc("none", 0, <<>>, <<>>, 0, <<>>, "")

\* a call in progress, and a call that has returned
Called(op, handle, args, obj) == Loc(op, handle, args, obj, 0, <<>>, "")
Returned(op, handle, ret, res, err) == Loc(op, handle, <<>>, <<>>, ret, res, err)

\* the handles callers pass: 0 and the values the counter can issue
HandleArgs == 0..MaxHandle

\* lib.rs:48 generate_handle, as called by register_generator (lib.rs:56)
\* and register_reader (lib.rs:80)
generate_handle(t) ==
    /\ pc[t] \in {"rg_handle", "rr_handle"}
    /\ Len(handed) < MaxHandle
    /\ COUNTER' = fetch_add(COUNTER).stored
    /\ handed' = Append(handed, fetch_add(COUNTER).returned)
    /\ loc' = [loc EXCEPT ![t].handle = fetch_add(COUNTER).returned]
    /\ pc' = [pc EXCEPT ![t] = IF pc[t] = "rg_handle" THEN "rg_lock" ELSE "rr_lock"]
    /\ UNCHANGED <<GENERATOR_REGISTRY, READER_REGISTRY, genLock, rdrLock, fs,
                   issued, removed>>

\* lib.rs:57-59 register_generator: lock, insert, return the handle
register_generator(t) ==
    /\ pc[t] = "rg_lock"
    /\ CanLock(genLock)
    /\ GENERATOR_REGISTRY' = registry_insert(GENERATOR_REGISTRY, loc[t].handle, loc[t].obj[1])
    /\ issued' = Append(issued, [handle |-> loc[t].handle, registry |-> "generator"])
    /\ loc' = [loc EXCEPT ![t] = Returned(loc[t].op, loc[t].handle, loc[t].handle, <<>>, "")]
    /\ pc' = [pc EXCEPT ![t] = "done"]
    /\ UNCHANGED <<COUNTER, READER_REGISTRY, genLock, rdrLock, fs, handed, removed>>

\* lib.rs:81-83 register_reader
register_reader(t) ==
    /\ pc[t] = "rr_lock"
    /\ CanLock(rdrLock)
    /\ READER_REGISTRY' = registry_insert(READER_REGISTRY, loc[t].handle, loc[t].obj[1])
    /\ issued' = Append(issued, [handle |-> loc[t].handle, registry |-> "reader"])
    /\ loc' = [loc EXCEPT ![t] = Returned(loc[t].op, loc[t].handle, loc[t].handle, <<>>, "")]
    /\ pc' = [pc EXCEPT ![t] = "done"]
    /\ UNCHANGED <<COUNTER, GENERATOR_REGISTRY, genLock, rdrLock, fs, handed, removed>>

\* lib.rs:73 unregister_generator, as called by destroyNative
\* (jni_bridge.rs:281), which drops the bool
unregister_generator(t) ==
    LET handle == loc[t].handle IN
    /\ pc[t] = "ug_lock"
    /\ CanLock(genLock)
    /\ GENERATOR_REGISTRY' = registry_remove(GENERATOR_REGISTRY, handle).map
    /\ removed' = IF registry_remove(GENERATOR_REGISTRY, handle).is_some
                  THEN removed \cup {handle} ELSE removed
    /\ loc' = [loc EXCEPT ![t] =
                 Returned(loc[t].op, handle,
                          IF registry_remove(GENERATOR_REGISTRY, handle).is_some
                          THEN 1 ELSE 0, <<>>, "")]
    /\ pc' = [pc EXCEPT ![t] = "done"]
    /\ UNCHANGED <<COUNTER, READER_REGISTRY, genLock, rdrLock, fs, handed, issued>>

\* lib.rs:97 unregister_reader, as called by closeNative (jni_bridge.rs:524)
unregister_reader(t) ==
    LET handle == loc[t].handle IN
    /\ pc[t] = "ur_lock"
    /\ CanLock(rdrLock)
    /\ READER_REGISTRY' = registry_remove(READER_REGISTRY, handle).map
    /\ removed' = IF registry_remove(READER_REGISTRY, handle).is_some
                  THEN removed \cup {handle} ELSE removed
    /\ loc' = [loc EXCEPT ![t] =
                 Returned(loc[t].op, handle,
                          IF registry_remove(READER_REGISTRY, handle).is_some
                          THEN 1 ELSE 0, <<>>, "")]
    /\ pc' = [pc EXCEPT ![t] = "done"]
    /\ UNCHANGED <<COUNTER, GENERATOR_REGISTRY, genLock, rdrLock, fs, handed, issued>>

\* lib.rs:63 get_generator: Some(guard) keeps the mutex locked until the
\* caller drops the guard, None unlocks on return
get_generator(t, handle) ==
    /\ pc[t] = "idle"
    /\ CanLock(genLock)
    /\ IF handle \in DOMAIN GENERATOR_REGISTRY
       THEN /\ genLock' = HoldGuard(genLock, t)
            /\ pc' = [pc EXCEPT ![t] = "gg_guard"]
            /\ loc' = [loc EXCEPT ![t] = Called("get_generator", handle, <<>>, <<>>)]
       ELSE /\ genLock' = genLock
            /\ pc' = [pc EXCEPT ![t] = "done"]
            /\ loc' = [loc EXCEPT ![t] = Returned("get_generator", handle, 0, <<>>, "")]
    /\ UNCHANGED <<COUNTER, GENERATOR_REGISTRY, READER_REGISTRY, rdrLock, fs,
                   handed, issued, removed>>

\* lib.rs:87 get_reader
get_reader(t, handle) ==
    /\ pc[t] = "idle"
    /\ CanLock(rdrLock)
    /\ IF handle \in DOMAIN READER_REGISTRY
       THEN /\ rdrLock' = HoldGuard(rdrLock, t)
            /\ pc' = [pc EXCEPT ![t] = "gr_guard"]
            /\ loc' = [loc EXCEPT ![t] = Called("get_reader", handle, <<>>, <<>>)]
       ELSE /\ rdrLock' = rdrLock
            /\ pc' = [pc EXCEPT ![t] = "done"]
            /\ loc' = [loc EXCEPT ![t] = Returned("get_reader", handle, 0, <<>>, "")]
    /\ UNCHANGED <<COUNTER, GENERATOR_REGISTRY, READER_REGISTRY, genLock, fs,
                   handed, issued, removed>>

\* the MutexGuard returned by get_generator / get_reader goes out of scope
drop_guard(t) ==
    /\ pc[t] \in {"gg_guard", "gr_guard"}
    /\ genLock' = IF pc[t] = "gg_guard" THEN genLock \ {t} ELSE genLock
    /\ rdrLock' = IF pc[t] = "gr_guard" THEN rdrLock \ {t} ELSE rdrLock
    /\ loc' = [loc EXCEPT ![t] = Returned(loc[t].op, loc[t].handle, 1, <<>>, "")]
    /\ pc' = [pc EXCEPT ![t] = "done"]
    /\ UNCHANGED <<COUNTER, GENERATOR_REGISTRY, READER_REGISTRY, fs,
                   handed, issued, removed>>

\* the caller takes the result; the thread is free for its next call
return_to_caller(t) ==
    /\ pc[t] = "done"
    /\ pc' = [pc EXCEPT ![t] = "idle"]
    /\ loc' = [loc EXCEPT ![t] = NoCall]
    /\ UNCHANGED <<COUNTER, GENERATOR_REGISTRY, READER_REGISTRY, genLock, rdrLock,
                   fs, handed, issued, removed>>

---------------------------------------------------------------------------
(* jni_bridge.rs: the boundary functions *)

TargetArgs == {-1, 0, 1}
FieldArgs == {<<"f">>}
TermArgs == {"test", "other"}
DocRangeArgs == {<<0, 2>>, <<1, 0>>, <<-1, 0>>}
GeneratePathArgs == {"out", "file"}
OpenPathArgs == {"out", "good"}

\* jni_bridge.rs:152 create_mock_index: one committed segment of two
\* documents
MockIndex ==
    [schema |-> <<"a">>,
     segments |-> << [id |-> "1", num_docs |-> 2, max_doc |-> 2] >>]

\* jint -> usize at jni_bridge.rs:203: a negative value wraps to a value
\* of 2^64 - 2^31 or more
as_usize(n) == IF n < 0 THEN Huge ELSE n

\* the boundary check left out
TargetRejected_nothing(target_docs_per_split) == FALSE

\* jni_bridge.rs:189 the boundary's own check of target_docs_per_split
TargetRejected(target_docs_per_split) == target_docs_per_split <= 0

\* total size of the files under a path
SplitBytes(f, path) == SumSizes(f[path].files, DOMAIN f[path].files)

\* jni_bridge.rs:183 createNative up to the call of register_generator
createNative(t, target_docs_per_split) ==
    /\ pc[t] = "idle"
    /\ IF TargetRejected(target_docs_per_split)
       THEN /\ loc' = [loc EXCEPT ![t] =
                         Returned("createNative", 0, 0, <<>>, "InvalidOperation")]
            /\ pc' = [pc EXCEPT ![t] = "done"]
       ELSE \/ \* create_mock_index fails
               /\ loc' = [loc EXCEPT ![t] =
                            Returned("createNative", 0, 0, <<>>, "Tantivy")]
               /\ pc' = [pc EXCEPT ![t] = "done"]
            \/ LET g == QuickwitSplitGenerator_new(MockIndex,
                                                   as_usize(target_docs_per_split))
               IN IF g.ok
                  THEN /\ loc' = [loc EXCEPT ![t] =
                                    Called("createNative", 0, <<>>, g.generator)]
                       /\ pc' = [pc EXCEPT ![t] = "rg_handle"]
                  ELSE /\ loc' = [loc EXCEPT ![t] =
                                    Returned("createNative", 0, 0, <<>>, g.err)]
                       /\ pc' = [pc EXCEPT ![t] = "done"]
    /\ UNCHANGED <<COUNTER, GENERATOR_REGISTRY, READER_REGISTRY, genLock, rdrLock,
                   fs, handed, issued, removed>>

\* jni_bridge.rs:236-254 generateSplitNative: lock the registry and look
\* the handle up; the guard lives until the function returns
generateSplitNative_lookup(t, handle, output_path) ==
    /\ pc[t] = "idle"
    /\ SplitBytes(fs, output_path) <= MaxSplitBytes
    /\ CanLock(genLock)
    /\ IF handle \in DOMAIN GENERATOR_REGISTRY
       THEN /\ genLock' = HoldGuard(genLock, t)
            /\ pc' = [pc EXCEPT ![t] = "gs_generate"]
            /\ loc' = [loc EXCEPT ![t] =
                         Called("generateSplitNative", handle, <<output_path>>, <<>>)]
       ELSE /\ genLock' = genLock
            /\ pc' = [pc EXCEPT ![t] = "done"]
            /\ loc' = [loc EXCEPT ![t] =
                         Returned("generateSplitNative", handle, 0, <<>>,
                                  "InvalidOperation")]
    /\ UNCHANGED <<COUNTER, GENERATOR_REGISTRY, READER_REGISTRY, rdrLock, fs,
                   handed, issued, removed>>

\* a generateSplitNative whose return leaves the registry locked
generateSplitNative_generate_keeps_guard(t) ==
    /\ pc[t] = "gs_generate"
    /\ \E o \in generate_split(GENERATOR_REGISTRY[loc[t].handle], loc[t].args[1], fs) :
         /\ fs' = o.fs
         /\ loc' = [loc EXCEPT ![t] =
                      Returned(loc[t].op, loc[t].handle, 0,
                               IF o.ok THEN <<o.meta>> ELSE <<>>, o.err)]
    /\ genLock' = genLock
    /\ pc' = [pc EXCEPT ![t] = "done"]
    /\ UNCHANGED <<COUNTER, GENERATOR_REGISTRY, READER_REGISTRY, rdrLock,
                   handed, issued, removed>>

\* jni_bridge.rs:257-272 generateSplitNative: generate, build the result,
\* return (the guard is dropped)
generateSplitNative_generate(t) ==
    /\ pc[t] = "gs_generate"
    /\ \E o \in generate_split(GENERATOR_REGISTRY[loc[t].handle], loc[t].args[1], fs) :
         /\ fs' = o.fs
         /\ loc' = [loc EXCEPT ![t] =
                      Returned(loc[t].op, loc[t].handle, 0,
                               IF o.ok THEN <<o.meta>> ELSE <<>>, o.err)]
    /\ genLock' = genLock \ {t}
    /\ pc' = [pc EXCEPT ![t] = "done"]
    /\ UNCHANGED <<COUNTER, GENERATOR_REGISTRY, READER_REGISTRY, rdrLock,
                   handed, issued, removed>>

\* jni_bridge.rs:275 destroyNative is called
destroyNative(t, handle) ==
    /\ pc[t] = "idle"
    /\ loc' = [loc EXCEPT ![t] = Called("destroyNative", handle, <<>>, <<>>)]
    /\ pc' = [pc EXCEPT ![t] = "ug_lock"]
    /\ UNCHANGED <<COUNTER, GENERATOR_REGISTRY, READER_REGISTRY, genLock, rdrLock,
                   fs, handed, issued, removed>>

\* jni_bridge.rs:518 closeNative is called
closeNative(t, handle) ==
    /\ pc[t] = "idle"
    /\ loc' = [loc EXCEPT ![t] = Called("closeNative", handle, <<>>, <<>>)]
    /\ pc' = [pc EXCEPT ![t] = "ur_lock"]
    /\ UNCHANGED <<COUNTER, GENERATOR_REGISTRY, READER_REGISTRY, genLock, rdrLock,
                   fs, handed, issued, removed>>

\* jni_bridge.rs:289 openNative up to the call of register_reader
openNative(t, split_path) ==
    /\ pc[t] = "idle"
    /\ \E o \in QuickwitSplitReader_open(split_path, fs) :
         IF o.ok
         THEN /\ loc' = [loc EXCEPT ![t] = Called("openNative", 0, <<>>, o.reader)]
              /\ pc' = [pc EXCEPT ![t] = "rr_handle"]
         ELSE /\ loc' = [loc EXCEPT ![t] = Returned("openNative", 0, 0, <<>>, o.err)]
              /\ pc' = [pc EXCEPT ![t] = "done"]
    /\ UNCHANGED <<COUNTER, GENERATOR_REGISTRY, READER_REGISTRY, genLock, rdrLock,
                   fs, handed, issued, removed>>

\* jni_bridge.rs:324-342 getHotcacheInfoNative: lock and look up
getHotcacheInfoNative_lookup(t, handle) ==
    /\ pc[t] = "idle"
    /\ CanLock(rdrLock)
    /\ IF handle \in DOMAIN READER_REGISTRY
       THEN /\ rdrLock' = HoldGuard(rdrLock, t)
            /\ pc' = [pc EXCEPT ![t] = "ghi_use"]
            /\ loc' = [loc EXCEPT ![t] =
                         Called("getHotcacheInfoNative", handle, <<>>, <<>>)]
       ELSE /\ rdrLock' = rdrLock
            /\ pc' = [pc EXCEPT ![t] = "done"]
            /\ loc' = [loc EXCEPT ![t] =
                         Returned("getHotcacheInfoNative", handle, 0, <<>>,
                                  "InvalidOperation")]
    /\ UNCHANGED <<COUNTER, GENERATOR_REGISTRY, READER_REGISTRY, genLock, fs,
                   handed, issued, removed>>

\* jni_bridge.rs:103 create_hotcache_info_object: the fields map is left empty
create_hotcache_info_object(hotcache) ==
    [split_id |-> hotcache.split_id, num_docs |-> hotcache.num_docs,
     schema_hash |-> hotcache.schema_hash, fields |-> <<>>]

\* jni_bridge.rs:345-359 getHotcacheInfoNative: read the hotcache, return
getHotcacheInfoNative_use(t) ==
    /\ pc[t] = "ghi_use"
    /\ LET hotcache == get_hotcache_info(READER_REGISTRY[loc[t].handle])
       IN loc' = [loc EXCEPT ![t] =
                    Returned(loc[t].op, loc[t].handle, 0,
                             IF hotcache = <<>> THEN <<>>
                             ELSE << create_hotcache_info_object(hotcache[1]) >>, "")]
    /\ rdrLock' = rdrLock \ {t}
    /\ pc' = [pc EXCEPT ![t] = "done"]
    /\ UNCHANGED <<COUNTER, GENERATOR_REGISTRY, READER_REGISTRY, genLock, fs,
                   handed, issued, removed>>

PlaceholderUuid ==
    <<"1", "2", "3", "4", "5", "6", "7", "8", "-", "1", "2", "3", "4", "-",
      "1", "2", "3", "4", "-", "1", "2", "3", "4", "-",
      "1", "2", "3", "4", "5", "6", "7", "8", "9", "a", "b", "c">>

\* jni_bridge.rs:362 listSegmentFilesNative: the handle is not looked up
listSegmentFilesNative(t, handle) ==
    /\ pc[t] = "idle"
    /\ loc' = [loc EXCEPT ![t] =
                 Returned("listSegmentFilesNative", handle, 0,
                          << <<PlaceholderUuid \o DotStore, PlaceholderUuid \o DotTerm,
                               PlaceholderUuid \o DotFast>> >>, "")]
    /\ pc' = [pc EXCEPT ![t] = "done"]
    /\ UNCHANGED <<COUNTER, GENERATOR_REGISTRY, READER_REGISTRY, genLock, rdrLock,
                   fs, handed, issued, removed>>

\* jni_bridge.rs:434 readPostingListNative: the handle is not looked up
readPostingListNative(t, handle, field, term) ==
    /\ pc[t] = "idle"
    /\ loc' = [loc EXCEPT ![t] =
                 Returned("readPostingListNative", handle, 0,
                          << IF term = "test" \/ term = "quickwit"
                             THEN <<1, 5, 10, 15>> ELSE <<>> >>, "")]
    /\ pc' = [pc EXCEPT ![t] = "done"]
    /\ UNCHANGED <<COUNTER, GENERATOR_REGISTRY, READER_REGISTRY, genLock, rdrLock,
                   fs, handed, issued, removed>>

\* jni_bridge.rs:481 getFastFieldDataNative: the handle is not looked up
getFastFieldDataNative(t, handle, field, start_doc, end_doc) ==
    /\ pc[t] = "idle"
    /\ loc' = [loc EXCEPT ![t] =
                 IF start_doc < 0 \/ end_doc < start_doc
                 THEN Returned("getFastFieldDataNative", handle, 0, <<>>,
                               "InvalidOperation")
                 ELSE Returned("getFastFieldDataNative", handle, 0,
                               << [i \in 1..((end_doc - start_doc) * 8) |-> 0] >>, "")]
    /\ pc' = [pc EXCEPT ![t] = "done"]
    /\ UNCHANGED <<COUNTER, GENERATOR_REGISTRY, READER_REGISTRY, genLock, rdrLock,
                   fs, handed, issued, removed>>

---------------------------------------------------------------------------
(* The concurrent specification: threads call the boundary functions and   *)
(* the registry accessors in any interleaving.                             *)

\* a split directory another writer produced: the store content, then the
\* payload, then the 8-byte length of payload and trailer
GoodStore ==
    LET payload == Hotcache_serialize(SampleHotcache)
    IN <<7>> \o payload \o to_le_bytes_u64(Len(payload) + 8)

GoodSplit == DirEntry([n \in {uuid_string("9") \o DotStore} |-> GoodStore])

\* the working directory holds the store and term file of segment "1",
\* and of segment "2" the term file alone
SourceDir ==
    DirEntry([n \in {uuid_string("1") \o DotStore, uuid_string("1") \o DotTerm,
                     uuid_string("2") \o DotTerm}
              |-> IF n = uuid_string("1") \o DotStore THEN <<1, 2, 3>> ELSE <<4, 5>>])

Init ==
    /\ COUNTER = 1
    /\ GENERATOR_REGISTRY = EmptyFiles
    /\ READER_REGISTRY = EmptyFiles
    /\ genLock = {}
    /\ rdrLock = {}
    /\ pc = [t \in Threads |-> "idle"]
    /\ loc = [t \in Threads |-> NoCall]
    /\ fs = [p \in {Cwd, "out", "good", "file"} |->
               IF p = Cwd THEN SourceDir
               ELSE IF p = "good" THEN GoodSplit
               ELSE IF p = "file" THEN FileEntry ELSE NoEntry]
    /\ handed = <<>>
    /\ issued = <<>>
    /\ removed = {}

\* the calls that work on the registries
RegistryCall(t) ==
    \/ generate_handle(t)
    \/ register_generator(t)
    \/ register_reader(t)
    \/ unregister_generator(t)
    \/ unregister_reader(t)
    \/ return_to_caller(t)
    \/ \E n \in TargetArgs : createNative(t, n)
    \/ \E h \in HandleArgs, p \in GeneratePathArgs : generateSplitNative_lookup(t, h, p)
    \/ generateSplitNative_generate(t)
    \/ \E h \in HandleArgs : destroyNative(t, h)
    \/ \E p \in OpenPathArgs : openNative(t, p)
    \/ \E h \in HandleArgs : getHotcacheInfoNative_lookup(t, h)
    \/ getHotcacheInfoNative_use(t)
    \/ \E h \in HandleArgs : closeNative(t, h)

\* the reader queries of the boundary
QueryCall(t) ==
    \/ \E h \in HandleArgs : listSegmentFilesNative(t, h)
    \/ \E h \in HandleArgs, f \in FieldArgs, term \in TermArgs :
          readPostingListNative(t, h, f, term)
    \/ \E h \in HandleArgs, f \in FieldArgs, r \in DocRangeArgs :
          getFastFieldDataNative(t, h, f, r[1], r[2])

\* the accessors of lib.rs that hand out a guard
AccessorCall(t) ==
    \/ \E h \in HandleArgs : get_generator(t, h)
    \/ \E h \in HandleArgs : get_reader(t, h)
    \/ drop_guard(t)

Next == \E t \in Threads : RegistryCall(t) \/ AccessorCall(t)

Spec == Init /\ [][Next]_vars

\* one caller at a time, every function of the boundary
NextBoundary == RegistryCall("t1") \/ QueryCall("t1")

SpecBoundary == Init /\ [][NextBoundary]_vars

\* the threads of Spec under a scheduler that lets every thread run: a call
\* that can take its next step again and again takes it (a file-system call
\* returns, a thread waiting for a mutex that keeps being released gets it)
SpecLive ==
    Spec /\ \A t \in Threads :
        /\ SF_vars(pc[t] # "gs_generate" /\ (RegistryCall(t) \/ AccessorCall(t)))
        \* generate_split returns, whatever it wrote and whatever its result
        /\ WF_vars(/\ pc[t] = "gs_generate"
                   /\ pc' = [pc EXCEPT ![t] = "done"]
                   /\ genLock' = genLock \ {t}
                   /\ fs' = fs \/ TRUE
                   /\ loc' = loc \/ TRUE
                   /\ UNCHANGED <<COUNTER, GENERATOR_REGISTRY, READER_REGISTRY,
                                  rdrLock, handed, issued, removed>>)

---------------------------------------------------------------------------
(* Properties of the handle counter and the registries *)

Range(seq) == {seq[i] : i \in 1..Len(seq)}
IssuedBy(registry) == {issued[i].handle : i \in {j \in 1..Len(issued) : issued[j].registry = registry}}
GenCritical == {"gs_generate", "gg_guard"}
RdrCritical == {"ghi_use", "gr_guard"}

\* C1: the values generate_handle hands out are 1, 2, 3, ... in the order
\* of the atomic increments, so any N calls, from whichever threads, get N
\* distinct positive values, increasing from one call to the next
C1_HandlesCountUp ==
    /\ \A i \in 1..Len(handed) : handed[i] = i
    /\ \A i, j \in 1..Len(handed) : i < j => handed[i] < handed[j]
    /\ \A i \in 1..Len(handed) : handed[i] >= 1
    /\ COUNTER = Len(handed) + 1

\* two threads have each drawn a handle and neither has registered yet
C1_Witness ==
    /\ Len(handed) = 2
    /\ pc["t1"] \in {"rg_lock", "rr_lock"}
    /\ pc["t2"] \in {"rg_lock", "rr_lock"}
    /\ loc["t1"].handle # loc["t2"].handle

\* C2: a handle value is returned by at most one register call, is never a
\* key again once its object was unregistered, and is never a key of both
\* registries
C2_HandleIssuedOnce ==
    /\ \A i, j \in 1..Len(issued) : i # j => issued[i].handle # issued[j].handle
    /\ removed \cap (DOMAIN GENERATOR_REGISTRY \cup DOMAIN READER_REGISTRY) = {}
    /\ DOMAIN GENERATOR_REGISTRY \cap DOMAIN READER_REGISTRY = {}

\* a register call returns while an earlier handle is already unregistered,
\* and the two registries have both issued a handle
C2_Witness ==
    \E t \in Threads :
        /\ pc[t] = "done"
        /\ loc[t].op \in {"createNative", "openNative"}
        /\ loc[t].ret > 0
        /\ removed # {}
        /\ loc[t].ret \notin removed
        /\ IssuedBy("generator") # {}
        /\ IssuedBy("reader") # {}

\* the lookups of a step: <<thread, registry, handle, found>>
LookupSteps ==
    {<<t, "generator", loc'[t].handle, pc'[t] = "gg_guard">> :
        t \in {u \in Threads : pc[u] = "idle" /\ loc'[u].op = "get_generator"}}
    \cup
    {<<t, "generator", loc'[t].handle, pc'[t] = "gs_generate">> :
        t \in {u \in Threads : pc[u] = "idle" /\ loc'[u].op = "generateSplitNative"}}
    \cup
    {<<t, "reader", loc'[t].handle, pc'[t] = "gr_guard">> :
        t \in {u \in Threads : pc[u] = "idle" /\ loc'[u].op = "get_reader"}}
    \cup
    {<<t, "reader", loc'[t].handle, pc'[t] = "ghi_use">> :
        t \in {u \in Threads : pc[u] = "idle" /\ loc'[u].op = "getHotcacheInfoNative"}}

\* C3: from the return of register until unregister, a lookup of the handle
\* in that registry succeeds; after unregister every lookup of it fails
C3_RegistryLifecycle ==
    /\ [](/\ DOMAIN GENERATOR_REGISTRY = IssuedBy("generator") \ removed
          /\ DOMAIN READER_REGISTRY = IssuedBy("reader") \ removed)
    /\ [][\A l \in LookupSteps : l[4] <=> (l[3] \in IssuedBy(l[2]) \ removed)]_vars

\* a lookup of an unregistered handle has failed while another thread holds
\* the guard of a successful lookup
C3_Witness ==
    \E t, u \in Threads :
        /\ pc[t] = "done"
        /\ loc[t].op \in {"get_generator", "get_reader"}
        /\ loc[t].ret = 0
        /\ loc[t].handle \in removed
        /\ pc[u] \in {"gg_guard", "gr_guard"}

\* an unregister step of thread t on a registry: before and after
UnregisterStep(t, at, registry, registryAfter, other, otherAfter) ==
    (pc[t] = at /\ pc'[t] = "done") =>
        LET h == loc[t].handle
        IN /\ (loc'[t].ret = 1) <=> (h \in DOMAIN registry)
           /\ (loc'[t].ret = 0) <=> (h \notin DOMAIN registry)
           /\ loc'[t].err = ""
           /\ DOMAIN registryAfter = DOMAIN registry \ {h}
           /\ \A k \in DOMAIN registryAfter : registryAfter[k] = registry[k]
           /\ otherAfter = other
           /\ (h \in removed \/ h \notin Range(handed)) =>
                 (loc'[t].ret = 0 /\ registryAfter = registry)

\* C4: unregister returns true exactly when the handle was a key, and then
\* removes that entry only; on a handle already unregistered or never
\* issued it returns false, raises nothing and changes nothing
C4_UnregisterResult ==
    [][\A t \in Threads :
          /\ UnregisterStep(t, "ug_lock", GENERATOR_REGISTRY, GENERATOR_REGISTRY',
                            READER_REGISTRY, READER_REGISTRY')
          /\ UnregisterStep(t, "ur_lock", READER_REGISTRY, READER_REGISTRY',
                            GENERATOR_REGISTRY, GENERATOR_REGISTRY')]_vars

\* a second destroy of a handle has returned false with another generator
\* still registered
C4_Witness ==
    \E t \in Threads :
        /\ pc[t] = "done"
        /\ loc[t].op = "destroyNative"
        /\ loc[t].ret = 0
        /\ loc[t].handle \in removed
        /\ DOMAIN GENERATOR_REGISTRY # {}


\* the registry a handle-taking boundary function looks its handle up in
HandleOpRegistry ==
    [generateSplitNative |-> "generator", getHotcacheInfoNative |-> "reader",
     listSegmentFilesNative |-> "reader", readPostingListNative |-> "reader",
     getFastFieldDataNative |-> "reader"]

Registered(registry) ==
    IF registry = "generator" THEN DOMAIN GENERATOR_REGISTRY ELSE DOMAIN READER_REGISTRY

\* C5: generateSplit, getHotcacheInfo, listSegmentFiles, readPostingList and
\* getFastFieldData report InvalidOperation and return no result when the
\* handle is not registered in the corresponding registry (never issued,
\* issued by the other registry, or already destroyed or closed)
C5_UnregisteredHandleRejected ==
    (pc["t1"] = "done"
       /\ loc["t1"].op \in {"generateSplitNative", "getHotcacheInfoNative",
                            "listSegmentFilesNative", "readPostingListNative",
                            "getFastFieldDataNative"} )
       => (loc["t1"].handle \notin Registered(HandleOpRegistry[loc["t1"].op])
             => (loc["t1"].err = "InvalidOperation" /\ loc["t1"].res = <<>>))

\* listSegmentFiles has returned file names for a handle that was closed
C5_Witness ==
    /\ pc["t1"] = "done"
    /\ loc["t1"].op = "listSegmentFilesNative"
    /\ loc["t1"].handle \in removed
    /\ loc["t1"].handle \in IssuedBy("reader")
    /\ loc["t1"].err = ""
    /\ loc["t1"].res # <<>>

\* C6: while generateSplit or getHotcacheInfo works on handle h it holds the
\* registry's lock and h stays registered; a destroy or close of h takes
\* effect before the lookup or after the operation has finished, never
\* while the object is in use
C6_NoInterleaveOnHandle ==
    /\ [](\A t \in Threads :
            /\ pc[t] = "gs_generate" =>
                 (loc[t].handle \in DOMAIN GENERATOR_REGISTRY /\ genLock = {t})
            /\ pc[t] = "ghi_use" =>
                 (loc[t].handle \in DOMAIN READER_REGISTRY /\ rdrLock = {t}))
    /\ [][\A t, u \in Threads :
            /\ (pc[t] = "gs_generate" /\ pc[u] = "ug_lock"
                  /\ loc[u].handle = loc[t].handle) => pc'[u] = "ug_lock"
            /\ (pc[t] = "ghi_use" /\ pc[u] = "ur_lock"
                  /\ loc[u].handle = loc[t].handle) => pc'[u] = "ur_lock"]_vars

\* a generateSplit on h is in progress while another thread has called
\* destroy on the same h and waits
C6_Witness ==
    \E t, u \in Threads :
        /\ pc[t] = "gs_generate"
        /\ pc[u] = "ug_lock"
        /\ loc[u].handle = loc[t].handle

\* a step of thread u that locks the given registry
LockStep(u, lockAt, lookups) ==
    \/ pc[u] \in lockAt /\ pc'[u] # pc[u]
    \/ pc[u] = "idle" /\ pc'[u] # "idle" /\ loc'[u].op \in lookups

\* C7: at most one thread at a time is between acquiring and releasing a
\* registry's lock, so lookup, insert and remove of one registry exclude
\* each other, also on different handles
C7_RegistryMutualExclusion ==
    /\ [](/\ Cardinality({t \in Threads : pc[t] \in GenCritical}) <= 1
          /\ Cardinality({t \in Threads : pc[t] \in RdrCritical}) <= 1
          /\ genLock = {t \in Threads : pc[t] \in GenCritical}
          /\ rdrLock = {t \in Threads : pc[t] \in RdrCritical})
    /\ [][\A t, u \in Threads :
            /\ (t # u /\ pc[t] \in GenCritical) =>
                 ~LockStep(u, {"rg_lock", "ug_lock"},
                           {"generateSplitNative", "get_generator"})
            /\ (t # u /\ pc[t] \in RdrCritical) =>
                 ~LockStep(u, {"rr_lock", "ur_lock"},
                           {"getHotcacheInfoNative", "get_reader"})]_vars

\* a generateSplit is in progress on one handle while a destroy of another
\* registered handle waits for the lock
C7_Witness ==
    \E t, u \in Threads :
        /\ pc[t] = "gs_generate"
        /\ pc[u] = "ug_lock"
        /\ loc[u].handle # loc[t].handle
        /\ loc[u].handle \in DOMAIN GENERATOR_REGISTRY

\* C8: creating a generator with a zero or negative target_docs_per_split
\* fails with InvalidOperation and creates no generator; every generator
\* that exists has target_docs_per_split > 0 and no operation changes it
C8_TargetDocsPositive ==
    /\ [](/\ \A h \in DOMAIN GENERATOR_REGISTRY :
                GENERATOR_REGISTRY[h].target_docs_per_split > 0
          /\ \A t \in Threads :
                (loc[t].op = "createNative" /\ loc[t].obj # <<>>) =>
                    loc[t].obj[1].target_docs_per_split > 0)
    /\ [][/\ \A t \in Threads, n \in TargetArgs :
                (n <= 0 /\ createNative(t, n)) =>
                    /\ pc'[t] = "done"
                    /\ loc'[t] = Returned("createNative", 0, 0, <<>>, "InvalidOperation")
          /\ \A h \in DOMAIN GENERATOR_REGISTRY \cap DOMAIN GENERATOR_REGISTRY' :
                GENERATOR_REGISTRY'[h].target_docs_per_split
                    = GENERATOR_REGISTRY[h].target_docs_per_split]_vars

\* a create with a non-positive target has failed while a generator created
\* with a positive one is registered
C8_Witness ==
    \E t \in Threads :
        /\ pc[t] = "done"
        /\ loc[t] = Returned("createNative", 0, 0, <<>>, "InvalidOperation")
        /\ DOMAIN GENERATOR_REGISTRY # {}


---------------------------------------------------------------------------
(* The footer: embed_hotcache writes it into a store file and              *)
(* read_hotcache_from_footer reads it back.                                *)

\* the bytes of a store file before the footer is embedded
StoreBytes == {0, 9, 255}

\* the store contents of the model: every sequence of at most MaxOrigLen bytes
OrigContents == UNION {[1..n -> StoreBytes] : n \in 0..MaxOrigLen}

\* the HotcacheInfo values handed to embed_hotcache: those generate_hotcache
\* builds, and one with a metadata entry
FooterHotcaches ==
    {create_hotcache(uuid_string(id), n, sz) :
        id \in {"1", "2"}, n \in {0, 2}, sz \in {0, 3584}}
    \cup {[create_hotcache(uuid_string("1"), 2, 3584)
             EXCEPT !.metadata = << << <<"a">>, <<"b">> >> >>]}

FooterStore == uuid_string("1") \o DotStore

\* an output directory with one store file, or with none, and with or
\* without the term file of the segment next to it
InitFooter ==
    /\ COUNTER = 1
    /\ GENERATOR_REGISTRY = EmptyFiles
    /\ READER_REGISTRY = EmptyFiles
    /\ genLock = {}
    /\ rdrLock = {}
    /\ pc = [t \in Threads |-> IF t = "t1" THEN "fe_embed" ELSE "idle"]
    /\ \E orig \in OrigContents, hotcache \in FooterHotcaches,
          stored \in BOOLEAN, termed \in BOOLEAN :
         /\ stored \/ orig = <<>>
         /\ loc = [t \in Threads |->
                     IF t = "t1"
                     THEN Called("embed_hotcache", 0, <<orig>>, <<hotcache>>)
                     ELSE NoCall]
         /\ fs = [p \in {Cwd, "out", "good", "file"} |->
                    IF p = "out"
                    THEN LET others == IF termed
                                       THEN WriteFile(EmptyFiles,
                                                      uuid_string("1") \o DotTerm, <<4, 5>>)
                                       ELSE EmptyFiles
                         IN DirEntry(IF stored THEN WriteFile(others, FooterStore, orig)
                                     ELSE others)
                    ELSE IF p = "file" THEN FileEntry ELSE NoEntry]
    /\ handed = <<>>
    /\ issued = <<>>
    /\ removed = {}

\* split_generator.rs:246 embed_hotcache on the output directory; args
\* becomes <<original content, hotcache_start, hotcache_end>>
footer_embed(t) ==
    /\ pc[t] = "fe_embed"
    /\ \E e \in embed_hotcache("out", loc[t].obj[1], fs) :
         /\ fs' = e.fs
         /\ loc' = [loc EXCEPT ![t].args = IF e.ok THEN @ \o <<e.start, e.end>> ELSE @,
                               ![t].err = e.err]
         /\ pc' = [pc EXCEPT ![t] = IF e.ok THEN "fe_read" ELSE "done"]
    /\ UNCHANGED <<COUNTER, GENERATOR_REGISTRY, READER_REGISTRY, genLock, rdrLock,
                   handed, issued, removed>>

\* split_reader.rs:165 read_hotcache_from_footer on the store file that
\* find_store_file (split_reader.rs:149) returns
footer_read(t) ==
    /\ pc[t] = "fe_read"
    /\ \E store_file \in FilesEndingWith(fs["out"].files, DotStore) :
         LET r == read_hotcache_from_footer(fs["out"].files[store_file])
         IN loc' = [loc EXCEPT ![t].res = IF r.ok THEN <<r.data>> ELSE <<>>,
                               ![t].err = r.err]
    /\ pc' = [pc EXCEPT ![t] = "done"]
    /\ UNCHANGED <<COUNTER, GENERATOR_REGISTRY, READER_REGISTRY, genLock, rdrLock,
                   fs, handed, issued, removed>>

NextFooter == footer_embed("t1") \/ footer_read("t1")

SpecFooter == InitFooter /\ [][NextFooter]_vars

\* a store file of any shape is about to be read: fewer than 8 bytes, or
\* at most MaxFooterBody bytes followed by 8 bytes that hold a small size,
\* a size beyond the file, or a size beyond 2^32
InitFooterRead ==
    /\ COUNTER = 1
    /\ GENERATOR_REGISTRY = EmptyFiles
    /\ READER_REGISTRY = EmptyFiles
    /\ genLock = {}
    /\ rdrLock = {}
    /\ pc = [t \in Threads |-> IF t = "t1" THEN "fe_read" ELSE "idle"]
    /\ \E content \in
             {[i \in 1..n |-> 7] : n \in 0..7}
             \cup {body \o trailer :
                     body \in UNION {[1..n -> {0, 9}] : n \in 0..MaxFooterBody},
                     trailer \in {to_le_bytes_u64(N) : N \in 0..(MaxFooterBody + 10)}
                                 \cup {[i \in 1..8 |-> 255],
                                       [i \in 1..8 |-> IF i = 5 THEN 1 ELSE 0],
                                       [i \in 1..8 |-> IF i = 8 THEN 128 ELSE 0]}} :
         /\ loc = [t \in Threads |->
                     IF t = "t1"
                     THEN Called("read_hotcache_from_footer", 0, <<content>>, <<>>)
                     ELSE NoCall]
         /\ fs = [p \in {Cwd, "out", "good", "file"} |->
                    IF p = "out"
                    THEN DirEntry(WriteFile(EmptyFiles, FooterStore, content))
                    ELSE IF p = "file" THEN FileEntry ELSE NoEntry]
    /\ handed = <<>>
    /\ issued = <<>>
    /\ removed = {}

SpecFooterRead == InitFooterRead /\ [][footer_read("t1")]_vars

\* the embedding of a thread's hotcache has succeeded
Embedded(t) == loc[t].op = "embed_hotcache" /\ Len(loc[t].args) = 3

\* C9: for every payload P and original store content, the store file that
\* embed_hotcache writes ends with P followed by the 8-byte little-endian
\* value len(P) + 8, and read_hotcache_from_footer on that file returns P
C9_FooterRoundTrip ==
    \A t \in Threads :
        Embedded(t) =>
            LET P == HotcacheInfo_to_bytes(loc[t].obj[1])
            IN /\ fs["out"].files[FooterStore]
                    = loc[t].args[1] \o P \o to_le_bytes_u64(Len(P) + 8)
               /\ pc[t] = "done" => (loc[t].err = "" /\ loc[t].res = <<P>>)

\* the payload was embedded at the end of the original content, without a
\* length after it, and the read of the footer has failed
C9_Witness ==
    \E t \in Threads :
        /\ Embedded(t)
        /\ pc[t] = "done"
        /\ loc[t].args[1] # <<>>
        /\ fs["out"].files[FooterStore]
              = loc[t].args[1] \o HotcacheInfo_to_bytes(loc[t].obj[1])
        /\ loc[t].err = "InvalidSplit"
        /\ loc[t].res = <<>>

---------------------------------------------------------------------------
(* The core API called in sequence: a generator is constructed over an     *)
(* index, generates a split, and a reader opens the output directory.      *)

\* the segments an index is made of: [id, num_docs, max_doc]
SegmentPool ==
    [i \in 1..MaxSegments |-> [id |-> Hex[i + 1], num_docs |-> i, max_doc |-> i]]

Reverse(seq) == [i \in 1..Len(seq) |-> seq[Len(seq) + 1 - i]]

\* indices of 0 to MaxSegments segments, in either order
CoreIndexes ==
    {[schema |-> s, segments |-> segs] :
        s \in Schemas,
        segs \in UNION {{SubSeq(SegmentPool, 1, n), Reverse(SubSeq(SegmentPool, 1, n))} :
                           n \in 0..MaxSegments}}

CoreTargets == {0, 1}

\* split_generator.rs:54 QuickwitSplitGenerator::new
core_new(t, index, target_docs_per_split) ==
    /\ pc[t] = "idle"
    /\ LET g == QuickwitSplitGenerator_new(index, target_docs_per_split)
       IN IF g.ok
          THEN /\ loc' = [loc EXCEPT ![t] = Called("generate_split", 0, <<>>, g.generator)]
               /\ pc' = [pc EXCEPT ![t] = "core_generate"]
          ELSE /\ loc' = [loc EXCEPT ![t] = Returned("new", 0, 0, <<>>, g.err)]
               /\ pc' = [pc EXCEPT ![t] = "done"]
    /\ UNCHANGED <<COUNTER, GENERATOR_REGISTRY, READER_REGISTRY, genLock, rdrLock,
                   fs, handed, issued, removed>>

\* split_generator.rs:68 generate_split; args becomes <<output_path>> and
\* res the SplitMetadata
core_generate_split(t, output_path) ==
    /\ pc[t] = "core_generate"
    /\ SplitBytes(fs, output_path) <= MaxSplitBytes
    /\ \E o \in generate_split(loc[t].obj[1], output_path, fs) :
         /\ fs' = o.fs
         /\ loc' = [loc EXCEPT ![t].args = <<output_path>>,
                               ![t].res = IF o.ok THEN <<o.meta>> ELSE <<>>,
                               ![t].err = o.err]
         /\ pc' = [pc EXCEPT ![t] = IF o.ok THEN "core_open" ELSE "done"]
    /\ UNCHANGED <<COUNTER, GENERATOR_REGISTRY, READER_REGISTRY, genLock, rdrLock,
                   handed, issued, removed>>

\* split_reader.rs:38 QuickwitSplitReader::open on the directory the
\* generator wrote; ret is 1 when the open succeeds
core_open(t) ==
    /\ pc[t] = "core_open"
    /\ \E r \in QuickwitSplitReader_open(loc[t].args[1], fs) :
         loc' = [loc EXCEPT ![t].op = "open",
                            ![t].ret = IF r.ok THEN 1 ELSE 0,
                            ![t].err = r.err]
    /\ pc' = [pc EXCEPT ![t] = "done"]
    /\ UNCHANGED <<COUNTER, GENERATOR_REGISTRY, READER_REGISTRY, genLock, rdrLock,
                   fs, handed, issued, removed>>

NextCore ==
    \/ \E index \in CoreIndexes, n \in CoreTargets : core_new("t1", index, n)
    \/ \E p \in GeneratePathArgs : core_generate_split("t1", p)
    \/ core_open("t1")
    \/ return_to_caller("t1")

SpecCore == Init /\ [][NextCore]_vars

\* a generate_split of thread t over an index without segments has succeeded
EmptySplitDone(t) ==
    /\ loc[t].op \in {"generate_split", "open"}
    /\ pc[t] \in {"core_open", "done"}
    /\ loc[t].res # <<>>
    /\ loc[t].obj[1].index.segments = <<>>

\* C10: generate_split on an index with zero segments succeeds with
\* num_docs = 0, hotcache_start = 0 and hotcache_end = size_bytes, and the
\* store file it leaves in output_path has a parseable footer: opening
\* output_path with the reader afterwards succeeds
C10_EmptySplitOpens ==
    \A t \in Threads :
        EmptySplitDone(t) =>
            /\ loc[t].res[1].num_docs = 0
            /\ loc[t].res[1].hotcache_start = 0
            /\ loc[t].res[1].hotcache_end = loc[t].res[1].size_bytes
            /\ loc[t].op = "open" => (loc[t].ret = 1 /\ loc[t].err = "")

\* the empty split was generated into a new directory with the metadata
\* the claim names, and the open of that directory has failed
C10_Witness ==
    \E t \in Threads :
        /\ EmptySplitDone(t)
        /\ loc[t].op = "open"
        /\ pc[t] = "done"
        /\ Cardinality(DOMAIN fs[loc[t].args[1]].files) = 1
        /\ loc[t].res[1].num_docs = 0
        /\ loc[t].res[1].hotcache_start = 0
        /\ loc[t].res[1].hotcache_end = loc[t].res[1].size_bytes
        /\ loc[t].ret = 0
        /\ loc[t].err = "InvalidSplit"


---------------------------------------------------------------------------
(* The reader's core API called in sequence: a split directory is opened   *)
(* and the reader is queried.                                              *)

\* a prefix of 35 characters and 36 bytes with four hyphens
AccentedPrefix == <<EAcute>> \o SubSeq(uuid_string("9"), 2, 35)

\* the paths a reader is opened on.  full: store, term and fast file of
\* one segment and entries that are no segment files; garbage: a store
\* file whose footer frames a payload that is no hotcache
ReaderFs ==
    LET named == [store |-> uuid_string("9") \o DotStore,
                  term |-> uuid_string("9") \o DotTerm,
                  fast |-> uuid_string("9") \o DotFast,
                  early |-> uuid_string("1") \o DotIdx,
                  unknown |-> uuid_string("9") \o <<".", "t", "x", "t">>,
                  short |-> <<"n", "o", "t", "e", "s">> \o DotDel,
                  accented |-> AccentedPrefix \o DotIdx]
        full_files == [n \in {named[k] : k \in DOMAIN named} |->
                         IF n = named.store THEN GoodStore
                         ELSE IF n = named.fast THEN [i \in 1..24 |-> 100 + i]
                         ELSE <<4, 5>>]
        garbage_store == <<1, 2>> \o to_le_bytes_u64(10)
        sparse_payload == Hotcache_serialize(SparseHotcache)
        sparse_store == <<7>> \o sparse_payload
                            \o to_le_bytes_u64(Len(sparse_payload) + 8)
    IN
    [missing |-> NoEntry,
     file |-> FileEntry,
     empty |-> DirEntry(EmptyFiles),
     nostore |-> DirEntry(WriteFile(EmptyFiles, uuid_string("9") \o DotTerm, <<4, 5>>)),
     short |-> DirEntry(WriteFile(EmptyFiles, uuid_string("9") \o DotStore, <<1, 2, 3>>)),
     garbage |-> DirEntry(WriteFile(EmptyFiles, uuid_string("9") \o DotStore, garbage_store)),
     bare |-> GoodSplit,
     termed |-> DirEntry(WriteFile(GoodSplit.files, uuid_string("9") \o DotTerm, <<4, 5>>)),
     sparsebare |-> DirEntry(WriteFile(EmptyFiles, uuid_string("9") \o DotStore,
                                       sparse_store)),
     sparse |-> DirEntry(WriteFile(WriteFile(EmptyFiles, uuid_string("9") \o DotTerm, <<4, 5>>),
                                   uuid_string("9") \o DotStore, sparse_store)),
     full |-> DirEntry(full_files)]


InitReader ==
    /\ COUNTER = 1
    /\ GENERATOR_REGISTRY = EmptyFiles
    /\ READER_REGISTRY = EmptyFiles
    /\ genLock = {}
    /\ rdrLock = {}
    /\ pc = [t \in Threads |-> "idle"]
    /\ loc = [t \in Threads |-> NoCall]
    /\ fs = ReaderFs
    /\ handed = <<>>
    /\ issued = <<>>
    /\ removed = {}

\* split_reader.rs:38 QuickwitSplitReader::open; the reader is kept in obj
reader_open(t, split_path) ==
    /\ pc[t] = "idle"
    /\ \E r \in QuickwitSplitReader_open(split_path, fs) :
         IF r.ok
         THEN /\ loc' = [loc EXCEPT ![t] = Called("open", 0, <<split_path>>, r.reader)]
              /\ pc' = [pc EXCEPT ![t] = "rd_live"]
         ELSE /\ loc' = [loc EXCEPT ![t] =
                           [Returned("open", 0, 0, <<>>, r.err)
                              EXCEPT !.args = <<split_path>>]]
              /\ pc' = [pc EXCEPT ![t] = "done"]
    /\ UNCHANGED <<COUNTER, GENERATOR_REGISTRY, READER_REGISTRY, genLock, rdrLock,
                   fs, handed, issued, removed>>

\* a query on the live reader of thread t has returned
Queried(t, op, args, res, err) ==
    /\ pc[t] = "rd_live"
    /\ loc' = [loc EXCEPT ![t] = Loc(op, 0, args, loc[t].obj, 0, res, err)]
    /\ UNCHANGED <<COUNTER, GENERATOR_REGISTRY, READER_REGISTRY, genLock, rdrLock,
                   pc, fs, handed, issued, removed>>

\* split_reader.rs:77 get_hotcache_info
reader_get_hotcache_info(t) ==
    /\ pc[t] = "rd_live"
    /\ Queried(t, "get_hotcache_info", <<>>, get_hotcache_info(loc[t].obj[1]), "")

\* split_reader.rs:82 list_segment_files
reader_list(t) ==
    /\ pc[t] = "rd_live"
    /\ LET r == reader_list_segment_files(loc[t].obj[1], fs)
       IN Queried(t, "list_segment_files", <<>>,
                  IF r.ok THEN <<r.files>> ELSE <<>>, r.err)

\* split_reader.rs:100 read_posting_list
reader_read_posting_list(t, field, term) ==
    /\ pc[t] = "rd_live"
    /\ LET r == read_posting_list(loc[t].obj[1], field, term, fs)
       IN Queried(t, "read_posting_list", <<field, term>>,
                  IF r.ok THEN <<r.docs>> ELSE <<>>, r.err)

\* split_reader.rs:123 get_fast_field_data
reader_get_fast_field_data(t, field, doc_range) ==
    /\ pc[t] = "rd_live"
    /\ \E r \in get_fast_field_data(loc[t].obj[1], field, doc_range, fs) :
         Queried(t, "get_fast_field_data", <<field, doc_range>>,
                 IF r.ok THEN <<r.data>> ELSE <<>>, r.err)

\* the reader goes out of scope
reader_drop(t) ==
    /\ pc[t] = "rd_live"
    /\ pc' = [pc EXCEPT ![t] = "idle"]
    /\ loc' = [loc EXCEPT ![t] = NoCall]
    /\ UNCHANGED <<COUNTER, GENERATOR_REGISTRY, READER_REGISTRY, genLock, rdrLock,
                   fs, handed, issued, removed>>

\* the fields asked for: with both ranges, with posting data only, with
\* fast field data only, and in no hotcache
NextReader ==
    \/ \E p \in DOMAIN ReaderFs : reader_open("t1", p)
    \/ reader_get_hotcache_info("t1")
    \/ reader_list("t1")
    \/ \E field \in {<<"f">>, <<"d">>, <<"p">>, <<"z">>}, term \in {"test", "quickwit", "other"} :
          reader_read_posting_list("t1", field, term)
    \/ \E field \in {<<"f">>, <<"d">>, <<"p">>, <<"z">>},
          r \in {<<0, 0>>, <<0, 2>>, <<1, 1>>, <<1, 2>>, <<1, 3>>, <<2, 1>>, <<3, 9>>} :
          reader_get_fast_field_data("t1", field, [start |-> r[1], end |-> r[2]])
    \/ reader_drop("t1")
    \/ return_to_caller("t1")

SpecReader == InitReader /\ [][NextReader]_vars


\* an open of thread t has returned
Opened(t) == loc[t].op = "open" /\ pc[t] \in {"done", "rd_live"} /\ loc[t].args # <<>>

\* C11: opening a reader on a path that does not exist, on a path that is
\* not a directory, or on a directory without a file ending in .store
\* fails with InvalidSplit, and no reader is produced
C11_OpenFailures ==
    \A t \in Threads :
        Opened(t) =>
            LET entry == fs[loc[t].args[1]]
            IN (\/ entry.kind = "none"
                \/ entry.kind = "file"
                \/ (entry.kind = "dir" /\ FilesEndingWith(entry.files, DotStore) = {}))
               => (pc[t] = "done" /\ loc[t].err = "InvalidSplit" /\ loc[t].obj = <<>>)

\* an open of a directory that holds files, none of them a store file, has
\* failed
C11_Witness ==
    \E t \in Threads :
        /\ Opened(t)
        /\ pc[t] = "done"
        /\ fs[loc[t].args[1]].kind = "dir"
        /\ DOMAIN fs[loc[t].args[1]].files # {}
        /\ FilesEndingWith(fs[loc[t].args[1]].files, DotStore) = {}
        /\ loc[t].err = "InvalidSplit"


\* some store file of the path holds a footer that load_hotcache parses
Loadable(split_path) ==
    /\ fs[split_path].kind = "dir"
    /\ \E store_file \in FilesEndingWith(fs[split_path].files, DotStore) :
          load_hotcache(fs[split_path].files[store_file]).ok

\* C12: a reader is never half-initialized: every reader a successful open
\* returns, and so every reader in the registry, has its hotcache loaded and
\* get_hotcache_info on a live reader is never absent; when the footer
\* cannot be located or parsed the open fails, and no reader and no handle
\* exist
C12_ReaderNeverHalfInitialized ==
    /\ [](/\ \A h \in DOMAIN READER_REGISTRY :
                get_hotcache_info(READER_REGISTRY[h]) # <<>>
          /\ \A t \in Threads :
                /\ (loc[t].op = "openNative" /\ loc[t].obj # <<>>) =>
                       get_hotcache_info(loc[t].obj[1]) # <<>>
                /\ (pc[t] = "done" /\ loc[t].op = "getHotcacheInfoNative"
                      /\ loc[t].err = "") => loc[t].res # <<>>)
    /\ [][\A t \in Threads, p \in OpenPathArgs :
            (openNative(t, p) /\ ~Loadable(p)) =>
                /\ pc'[t] = "done"
                /\ loc'[t].ret = 0
                /\ loc'[t].err \in {"InvalidSplit", "Serialization"}
                /\ loc'[t].obj = <<>>
                /\ COUNTER' = COUNTER
                /\ handed' = handed
                /\ READER_REGISTRY' = READER_REGISTRY]_vars

\* an open of a generated directory whose footer does not parse has
\* failed while an opened reader is registered
C12_Witness ==
    \E t \in Threads :
        /\ pc[t] = "done"
        /\ loc[t].op = "openNative"
        /\ loc[t].err = "InvalidSplit"
        /\ FilesEndingWith(fs["out"].files, DotStore) # {}
        /\ DOMAIN READER_REGISTRY # {}


---------------------------------------------------------------------------
(* hotcache.rs: a HotcacheInfo is serialized and read back.                *)

\* a HotcacheInfo value: split ids with and without a character of two
\* bytes, and metadata maps of at most MaxMetadata entries in every
\* iteration order of the HashMap
InitHotcache ==
    /\ COUNTER = 1
    /\ GENERATOR_REGISTRY = EmptyFiles
    /\ READER_REGISTRY = EmptyFiles
    /\ genLock = {}
    /\ rdrLock = {}
    /\ pc = [t \in Threads |-> IF t = "t1" THEN "hc_to_bytes" ELSE "idle"]
    /\ LET entries == {<<"a">>, <<"b">>, <<"k", "e", "y">>} \X {<<>>, <<"c">>}
           maps == UNION {{m \in [1..n -> entries] :
                             \A i, j \in 1..n : i # j => m[i][1] # m[j][1]}
                          : n \in 0..MaxMetadata}
       IN \E split_id \in {<<>>, uuid_string("1"), <<EAcute, "-", "x">>},
             num_docs \in {0, 70000},
             size_bytes \in {0, 3584},
             range \in {<<0, 0>>, <<3, 259>>},
             m \in maps :
            loc = [t \in Threads |->
                     IF t = "t1"
                     THEN Called("to_bytes", 0, <<>>,
                                 <<[HotcacheInfo_new(split_id, num_docs, size_bytes)
                                      EXCEPT !.byte_range_start = range[1],
                                             !.byte_range_end = range[2],
                                             !.metadata = m]>>)
                     ELSE NoCall]
    /\ fs = [p \in {Cwd} |-> NoEntry]
    /\ handed = <<>>
    /\ issued = <<>>
    /\ removed = {}

\* hotcache.rs:63 to_bytes of the value in obj; args becomes <<bytes>>
hotcache_to_bytes(t) ==
    /\ pc[t] = "hc_to_bytes"
    /\ loc' = [loc EXCEPT ![t].args = <<HotcacheInfo_to_bytes(loc[t].obj[1])>>]
    /\ pc' = [pc EXCEPT ![t] = "hc_from_bytes"]
    /\ UNCHANGED <<COUNTER, GENERATOR_REGISTRY, READER_REGISTRY, genLock, rdrLock,
                   fs, handed, issued, removed>>

\* hotcache.rs:69 from_bytes of the bytes in args; res becomes <<value>>
hotcache_from_bytes(t) ==
    /\ pc[t] = "hc_from_bytes"
    /\ LET r == HotcacheInfo_from_bytes(loc[t].args[1])
       IN loc' = [loc EXCEPT ![t].op = "from_bytes", ![t].res = r.info, ![t].err = r.err]
    /\ pc' = [pc EXCEPT ![t] = "done"]
    /\ UNCHANGED <<COUNTER, GENERATOR_REGISTRY, READER_REGISTRY, genLock, rdrLock,
                   fs, handed, issued, removed>>

NextHotcache == hotcache_to_bytes("t1") \/ hotcache_from_bytes("t1")

SpecHotcache == InitHotcache /\ [][NextHotcache]_vars

\* the HashMap a sequence of entries stands for
HashMapOf(entries) ==
    [k \in {entries[i][1] : i \in 1..Len(entries)} |->
        (entries[CHOOSE i \in 1..Len(entries) : entries[i][1] = k])[2]]

\* C13: for every hotcache value x (any split_id, num_docs, size_bytes,
\* byte range and metadata map) serializing x succeeds, and deserializing
\* the bytes yields a value equal to x in every field
C13_HotcacheRoundTrip ==
    \A t \in Threads :
        /\ pc[t] = "hc_from_bytes" => Len(loc[t].args) = 1
        /\ (pc[t] = "done" /\ loc[t].op = "from_bytes") =>
              /\ loc[t].err = ""
              /\ loc[t].res # <<>>
              /\ LET x == loc[t].obj[1]
                     y == loc[t].res[1]
                 IN /\ y.split_id = x.split_id
                    /\ y.num_docs = x.num_docs
                    /\ y.size_bytes = x.size_bytes
                    /\ y.byte_range_start = x.byte_range_start
                    /\ y.byte_range_end = x.byte_range_end
                    /\ HashMapOf(y.metadata) = HashMapOf(x.metadata)

\* a value with a split id outside ASCII, a byte range and two metadata
\* entries has been serialized and read back
C13_Witness ==
    \E t \in Threads :
        /\ pc[t] = "done"
        /\ loc[t].op = "from_bytes"
        /\ loc[t].res # <<>>
        /\ loc[t].obj[1].split_id = <<EAcute, "-", "x">>
        /\ loc[t].obj[1].byte_range_end = 259
        /\ Len(loc[t].obj[1].metadata) = 2
        /\ loc[t].res[1].split_id = <<EAcute, "-", "x">>

----------------------------------------------------------------------------
(* split_reader.rs: is_segment_file on names of every shape *)

\* a file name: a prefix that is or is not shaped like an identifier,
\* followed by a known extension, an unknown one or none
InitMatcher ==
    /\ COUNTER = 1
    /\ GENERATOR_REGISTRY = EmptyFiles
    /\ READER_REGISTRY = EmptyFiles
    /\ genLock = {}
    /\ rdrLock = {}
    /\ pc = [t \in Threads |-> IF t = "t1" THEN "call_is_segment_file" ELSE "idle"]
    /\ LET hyphenated(positions) ==
               [i \in 1..36 |-> IF i \in positions THEN "-" ELSE "a"]
       IN \E prefix \in {PlaceholderUuid, uuid_string("1"),
                          <<"n", "o", "t", "-", "a", "-", "u", "u", "i", "d">>,
                          <<>>,
                          SubSeq(PlaceholderUuid, 1, 35),
                          PlaceholderUuid \o <<"0">>,
                          hyphenated({9, 14, 19}),
                          hyphenated({9, 14, 19, 24, 30}),
                          hyphenated({1, 2, 3, 36}),
                          AccentedPrefix,
                          <<EAcute>> \o SubSeq(PlaceholderUuid, 2, 36)},
             ext \in Range(extensions)
                     \cup {<<".", "u", "n", "k", "n", "o", "w", "n">>,
                           <<".", "t", "x", "t">>,
                           <<>>,
                           <<"s", "t", "o", "r", "e">>,
                           DotStore \o <<".", "b", "a", "k">>} :
            loc = [t \in Threads |->
                     IF t = "t1"
                     THEN Called("is_segment_file", 0, <<prefix \o ext>>, <<>>)
                     ELSE NoCall]
    /\ fs = [p \in {Cwd} |-> NoEntry]
    /\ handed = <<>>
    /\ issued = <<>>
    /\ removed = {}

\* split_reader.rs:219 is_segment_file of the name in args; res becomes
\* <<the answer>>
matcher_is_segment_file(t) ==
    /\ pc[t] = "call_is_segment_file"
    /\ loc' = [loc EXCEPT ![t].res = <<is_segment_file(loc[t].args[1])>>]
    /\ pc' = [pc EXCEPT ![t] = "done"]
    /\ UNCHANGED <<COUNTER, GENERATOR_REGISTRY, READER_REGISTRY, genLock, rdrLock,
                   fs, handed, issued, removed>>

SpecMatcher == InitMatcher /\ [][matcher_is_segment_file("t1")]_vars

\* <prefix>.<ext> with ext a known extension and a prefix of exactly 36
\* characters, exactly 4 of them hyphens
UuidShapedName(filename) ==
    \E i \in 1..Len(extensions) :
        /\ ends_with(filename, extensions[i])
        /\ LET prefix == SubSeq(filename, 1, Len(filename) - Len(extensions[i]))
           IN /\ Len(prefix) = 36
              /\ Cardinality({j \in 1..Len(prefix) : prefix[j] = "-"}) = 4

\* C14: the segment-file matcher accepts a filename exactly when it is
\* <prefix>.<ext> with ext one of store, term, idx, fast, pos, fieldnorm,
\* del and a prefix of exactly 36 characters containing exactly 4 hyphens
C14_MatcherAcceptsExactly ==
    \A t \in Threads :
        (pc[t] = "done" /\ loc[t].op = "is_segment_file") =>
            loc[t].res = <<UuidShapedName(loc[t].args[1])>>

\* the matcher has accepted a name whose prefix has 35 characters
C14_Witness ==
    \E t \in Threads :
        /\ pc[t] = "done"
        /\ loc[t].op = "is_segment_file"
        /\ loc[t].args = <<AccentedPrefix \o DotIdx>>
        /\ loc[t].res = <<TRUE>>

----------------------------------------------------------------------------
(* Properties of list_segment_files *)

\* the names are in ascending order, none twice
Ascending(names) ==
    \A i, j \in 1..Len(names) :
        i < j => bytes_less(as_bytes(names[i]), as_bytes(names[j]))

\* list_segment_files of a live reader gives exactly the entries of the
\* split directory that the matcher accepts, in ascending order, and the
\* other entries cause no error
CoreListExactAndSorted ==
    \A t \in Threads :
        (pc[t] = "rd_live" /\ loc[t].op = "list_segment_files") =>
            /\ loc[t].err = ""
            /\ Len(loc[t].res) = 1
            /\ Range(loc[t].res[1]) =
                  {n \in DOMAIN fs[loc[t].obj[1].split_path].files : is_segment_file(n)}
            /\ Ascending(loc[t].res[1])

\* C15: the listSegmentFiles boundary operation on the handle of a live
\* reader returns the list list_segment_files gives for that reader: the
\* entries of its split directory that the matcher accepts, ascending
C15_BoundaryListsReaderFiles ==
    \A t \in Threads :
        (/\ pc[t] = "done"
         /\ loc[t].op = "listSegmentFilesNative"
         /\ loc[t].handle \in DOMAIN READER_REGISTRY) =>
            loc[t].res =
                <<reader_list_segment_files(READER_REGISTRY[loc[t].handle], fs).files>>

\* the boundary operation has answered for a registered reader whose split
\* directory holds none of the names in the answer
C15_Witness ==
    \E t \in Threads :
        /\ pc[t] = "done"
        /\ loc[t].op = "listSegmentFilesNative"
        /\ loc[t].handle \in DOMAIN READER_REGISTRY
        /\ Len(loc[t].res) = 1
        /\ Range(loc[t].res[1])
              \cap DOMAIN fs[READER_REGISTRY[loc[t].handle].split_path].files = {}

----------------------------------------------------------------------------
(* Properties of read_posting_list and get_fast_field_data *)

\* the field's entry in the hotcache of the reader thread t works on
FieldEntry(t, field) == field_metadata_get(loc[t].obj[1].hotcache[1], field)

C17_FastFieldErrors ==
    \A t \in Threads :
        (pc[t] = "rd_live" /\ loc[t].op = "get_fast_field_data") =>
            LET entry == FieldEntry(t, loc[t].args[1])
                doc_range == loc[t].args[2]
                files == fs[loc[t].obj[1].split_path].files
            IN /\ (entry # <<>> /\ entry[1].fast_field_range = <<>>) =>
                      loc[t].err = "FieldError" /\ loc[t].res = <<>>
               /\ (/\ entry # <<>>
                   /\ entry[1].fast_field_range # <<>>
                   /\ FilesEndingWith(files, DotFast) # {}
                   /\ doc_range.end < doc_range.start) =>
                      loc[t].err = "InvalidOperation" /\ loc[t].res = <<>>

\* a doc range that ends before its start has been asked for on a field
\* with fast field data, and the call did not fail with InvalidOperation
C17_Witness ==
    \E t \in Threads :
        /\ pc[t] = "rd_live"
        /\ loc[t].op = "get_fast_field_data"
        /\ FieldEntry(t, loc[t].args[1]) # <<>>
        /\ FieldEntry(t, loc[t].args[1])[1].fast_field_range # <<>>
        /\ loc[t].args[2].end < loc[t].args[2].start
        /\ loc[t].err \in {"Panic", "Io", "Abort"}

----------------------------------------------------------------------------
(* split_reader.rs: calculate_doc_range_bytes on base ranges over the *)
(* whole of u64                                                       *)

\* a call on a base range (small ones, the one of
\* test_calculate_doc_range_bytes, and ranges that start at 2^63, 2^64 - 8
\* and 2^64 - 1) and a doc range (those that end before their start among
\* them)
InitDocRange ==
    /\ COUNTER = 1
    /\ GENERATOR_REGISTRY = EmptyFiles
    /\ READER_REGISTRY = EmptyFiles
    /\ genLock = {}
    /\ rdrLock = {}
    /\ pc = [t \in Threads |-> IF t = "t1" THEN "call_doc_range" ELSE "idle"]
    /\ LET MaxU64 == [i \in 1..8 |-> 255]
       IN
       \E base_range \in
              {ByteRange(to_le_bytes_u64(0), to_le_bytes_u64(0)),
               ByteRange(to_le_bytes_u64(0), to_le_bytes_u64(16)),
               ByteRange(to_le_bytes_u64(1000), to_le_bytes_u64(2000)),
               ByteRange([i \in 1..8 |-> IF i = 8 THEN 128 ELSE 0], MaxU64),
               ByteRange([i \in 1..8 |-> IF i = 1 THEN 248 ELSE 255], MaxU64),
               ByteRange(MaxU64, MaxU64)},
          doc_range \in
              {[start |-> s, end |-> e] : s, e \in {0, 1, 10, 15}}
              \cup {[start |-> 0, end |-> 70000]} :
         loc = [t \in Threads |->
                  IF t = "t1"
                  THEN Called("calculate_doc_range_bytes", 0,
                              <<base_range, doc_range>>, <<>>)
                  ELSE NoCall]
    /\ fs = [p \in {Cwd} |-> NoEntry]
    /\ handed = <<>>
    /\ issued = <<>>
    /\ removed = {}

\* split_reader.rs:254 calculate_doc_range_bytes of the ranges in args: res
\* becomes <<the byte range>>, or err "Panic"
doc_range_calculate(t) ==
    /\ pc[t] = "call_doc_range"
    /\ \E r \in calculate_doc_range_bytes(loc[t].args[1], loc[t].args[2]) :
         loc' = [loc EXCEPT ![t].res = IF r.panic THEN <<>> ELSE <<r.range>>,
                            ![t].err = IF r.panic THEN "Panic" ELSE ""]
    /\ pc' = [pc EXCEPT ![t] = "done"]
    /\ UNCHANGED <<COUNTER, GENERATOR_REGISTRY, READER_REGISTRY, genLock, rdrLock,
                   fs, handed, issued, removed>>

SpecDocRange == InitDocRange /\ [][doc_range_calculate("t1")]_vars

\* the sum of two u64 as a number of nine bytes
WideSum(a, b) == add_le(a \o <<0>>, b \o <<0>>, 0).bytes

\* a <= b for numbers in little-endian bytes of one length
RECURSIVE le_leq(_, _)
le_leq(a, b) ==
    IF a = <<>> THEN TRUE
    ELSE LET n == Len(a)
         IN IF a[n] # b[n] THEN a[n] < b[n]
            ELSE le_leq(SubSeq(a, 1, n - 1), SubSeq(b, 1, n - 1))

\* C18: for every base range and every doc_range with start <= end the
\* computed byte range is start = base.start + 8 * doc_range.start and
\* end = base.start + 8 * doc_range.end, so start <= end and the size is
\* 8 * (doc_range.end - doc_range.start)
C18_DocRangeBytes ==
    \A t \in Threads :
        (/\ pc[t] = "done"
         /\ loc[t].op = "calculate_doc_range_bytes"
         /\ loc[t].args[2].start <= loc[t].args[2].end) =>
            LET base == loc[t].args[1]
                docs == loc[t].args[2]
            IN /\ loc[t].err = ""
               /\ Len(loc[t].res) = 1
               /\ loc[t].res[1].start \o <<0>> =
                     WideSum(base.start, to_le_bytes_u64(8 * docs.start))
               /\ loc[t].res[1].end \o <<0>> =
                     WideSum(base.start, to_le_bytes_u64(8 * docs.end))
               /\ le_leq(loc[t].res[1].start, loc[t].res[1].end)
               /\ ByteRange_size(loc[t].res[1]).bytes =
                     to_le_bytes_u64(8 * (docs.end - docs.start))

\* a base range that starts 8 below 2^64 and the docs 1..10: the end
\* wrapped around, to below the start
C18_Witness ==
    \E t \in Threads :
        /\ pc[t] = "done"
        /\ loc[t].op = "calculate_doc_range_bytes"
        /\ loc[t].args[1].start = [i \in 1..8 |-> IF i = 1 THEN 248 ELSE 255]
        /\ loc[t].args[2] = [start |-> 1, end |-> 10]
        /\ loc[t].err = ""
        /\ loc[t].res = <<ByteRange(to_le_bytes_u64(0), to_le_bytes_u64(72))>>

----------------------------------------------------------------------------
(* Properties of generate_split called again and again on one directory *)

\* the last generate_split of thread t has succeeded
Generated(t) ==
    /\ loc[t].op \in {"generate_split", "open"}
    /\ pc[t] \in {"core_open", "done"}
    /\ Len(loc[t].args) = 1
    /\ loc[t].res # <<>>

\* the store files of the directory thread t generated into
StoreFilesOf(t) == FilesEndingWith(fs[loc[t].args[1]].files, DotStore)

\* C19: after any sequence of successful generate_split calls on one
\* output_path that was empty at first, the split directory holds exactly
\* one file ending in .store, and the final bytes of that file are the
\* hotcache footer: a payload followed by its 8-byte length, as
\* read_hotcache_from_footer reads it
C19_OneStoreFileWithFooter ==
    \A t \in Threads :
        Generated(t) =>
            /\ Cardinality(StoreFilesOf(t)) = 1
            /\ \A name \in StoreFilesOf(t) :
                  read_hotcache_from_footer(fs[loc[t].args[1]].files[name]).ok

\* a generate_split has succeeded and the directory holds two store files
C19_Witness ==
    \E t \in Threads :
        /\ Generated(t)
        /\ Cardinality(StoreFilesOf(t)) = 2

\* C20: for an index with k >= 1 segments the num_docs that generate_split
\* returns is the number of documents of all k segments together
C20_NumDocsOfAllSegments ==
    \A t \in Threads :
        (Generated(t) /\ Len(loc[t].obj[1].index.segments) >= 1) =>
            loc[t].res[1].num_docs = searcher_num_docs(loc[t].obj[1].index.segments)

\* a split of an index of two segments has been generated with the
\* num_docs of the first segment alone
C20_Witness ==
    \E t \in Threads :
        /\ Generated(t)
        /\ Len(loc[t].obj[1].index.segments) = 2
        /\ loc[t].res[1].num_docs = loc[t].obj[1].index.segments[1].num_docs
        /\ loc[t].res[1].num_docs < searcher_num_docs(loc[t].obj[1].index.segments)

----------------------------------------------------------------------------
(* Properties of the footer: embedding and reading *)

\* C21: embed_hotcache on a store file of original size S with payload P
\* returns hotcache_start = S and hotcache_end = S + len(P), only appends
\* to the file (its first S bytes are unchanged), and modifies no other
\* file of output_path
C21_EmbedFrame ==
    [][\A t \in Threads :
          (pc[t] = "fe_embed" /\ pc'[t] = "fe_read") =>
              LET P == HotcacheInfo_to_bytes(loc[t].obj[1])
                  before == fs["out"].files
                  after == fs'["out"].files
                  S == Len(before[FooterStore])
              IN /\ loc'[t].args = <<before[FooterStore], S, S + Len(P)>>
                 /\ DOMAIN after = DOMAIN before
                 /\ Len(after[FooterStore]) = S + Len(P)
                 /\ SubSeq(after[FooterStore], 1, S) = before[FooterStore]
                 /\ SubSeq(after[FooterStore], S + 1, S + Len(P)) = P
                 /\ \A n \in DOMAIN before \ {FooterStore} : after[n] = before[n]
                 /\ \A p \in DOMAIN fs \ {"out"} : fs'[p] = fs[p]]_vars

\* a payload has been embedded into a store file that was not empty, next
\* to a term file
C21_Witness ==
    \E t \in Threads :
        /\ Embedded(t)
        /\ loc[t].args[1] # <<>>
        /\ loc[t].args[2] = Len(loc[t].args[1])
        /\ uuid_string("1") \o DotTerm \in DOMAIN fs["out"].files
        /\ Len(fs["out"].files[FooterStore]) = loc[t].args[3]

\* C22: reading a footer from a store file of size F: if F < 8, or the
\* little-endian u64 N in the last 8 bytes is < 8 or > F, the read fails
\* with InvalidSplit; otherwise exactly the N - 8 bytes from offset F - N
\* are returned, a window inside the file that ends where the 8-byte
\* trailer begins, with F - N and N - 8 not below zero
C22_FooterReadWindow ==
    \A t \in Threads :
        (pc[t] = "done" /\ loc[t].op = "read_hotcache_from_footer") =>
            LET content == loc[t].args[1]
                F == Len(content)
            IN IF F < 8
               THEN loc[t].err = "InvalidSplit" /\ loc[t].res = <<>>
               ELSE LET N == from_le_bytes_u64(SubSeq(content, F - 7, F))
                    IN IF N < 8 \/ N > F
                       THEN loc[t].err = "InvalidSplit" /\ loc[t].res = <<>>
                       ELSE /\ loc[t].err = ""
                            /\ F - N >= 0
                            /\ N - 8 >= 0
                            /\ (F - N) + (N - 8) = F - 8
                            /\ loc[t].res = <<[i \in 1..(N - 8) |-> content[F - N + i]]>>

\* a footer of two payload bytes has been read from a store file that
\* holds another byte before it
C22_Witness ==
    \E t \in Threads :
        /\ pc[t] = "done"
        /\ loc[t].op = "read_hotcache_from_footer"
        /\ loc[t].args[1] = <<0, 9, 9>> \o to_le_bytes_u64(10)
        /\ loc[t].res = << <<9, 9>> >>

----------------------------------------------------------------------------
(* Properties of generate_split: the missing store file, size_bytes *)

\* the files of the segment that generate_split packages which exist in
\* the working directory
SourceFilesOf(t) ==
    {uuid_string(loc[t].obj[1].index.segments[1].id) \o ext : ext \in Range(extensions)}
    \cap DOMAIN fs[Cwd].files

\* C23: when generate_split runs on a non-empty index and output_path holds
\* no file ending in .store after the copy step, the call fails with
\* InvalidSplit and returns no SplitMetadata; segment files missing at the
\* source are skipped without error, and the files that were copied remain
\* in output_path
C23_MissingStoreReported ==
    [][\A t \in Threads : \A path \in GeneratePathArgs :
          (/\ pc[t] = "core_generate"
           /\ pc'[t] # "core_generate"
           /\ loc'[t].args = <<path>>
           /\ fs[path].kind # "file"
           /\ loc[t].obj[1].index.segments # <<>>
           /\ \A n \in DOMAIN fs[path].files \cup SourceFilesOf(t) :
                 ~ends_with(n, DotStore)) =>
              /\ loc'[t].err = "InvalidSplit"
              /\ loc'[t].res = <<>>
              /\ fs'[path].kind = "dir"
              /\ DOMAIN fs'[path].files = DOMAIN fs[path].files \cup SourceFilesOf(t)
              /\ \A n \in SourceFilesOf(t) : fs'[path].files[n] = fs[Cwd].files[n]
              /\ \A n \in DOMAIN fs[path].files \ SourceFilesOf(t) :
                    fs'[path].files[n] = fs[path].files[n]]_vars

\* generate_split of a segment that has a term file and no store file has
\* failed with InvalidSplit, and the term file is in output_path
C23_Witness ==
    \E t \in Threads :
        /\ pc[t] = "done"
        /\ loc[t].op = "generate_split"
        /\ loc[t].err = "InvalidSplit"
        /\ loc[t].res = <<>>
        /\ loc[t].obj[1].index.segments # <<>>
        /\ fs[loc[t].args[1]].kind = "dir"
        /\ DOMAIN fs[loc[t].args[1]].files = {uuid_string("2") \o DotTerm}

\* C24: for every successful generate_split the returned size_bytes is the
\* sum of the sizes of all regular files in output_path at the moment of
\* return, hence hotcache_start <= hotcache_end <= size_bytes
C24_SizeBytesIsDirectorySize ==
    \A t \in Threads :
        Generated(t) =>
            /\ loc[t].res[1].size_bytes = SplitBytes(fs, loc[t].args[1])
            /\ loc[t].res[1].hotcache_start <= loc[t].res[1].hotcache_end
            /\ loc[t].res[1].hotcache_end <= loc[t].res[1].size_bytes

\* an empty split has been generated into a directory that held files
\* before, and size_bytes is the size of the new store file alone
C24_Witness ==
    \E t \in Threads :
        /\ Generated(t)
        /\ loc[t].obj[1].index.segments = <<>>
        /\ Cardinality(DOMAIN fs[loc[t].args[1]].files) >= 2
        /\ loc[t].res[1].size_bytes = loc[t].res[1].hotcache_end
        /\ loc[t].res[1].size_bytes < SplitBytes(fs, loc[t].args[1])

----------------------------------------------------------------------------
(* Properties of the reader's errors and of the bytes it reads *)

\* the range the query of thread t asks the field's entry for: <<>> or <<r>>
RequestedRange(t) ==
    LET entry == FieldEntry(t, loc[t].args[1])
    IN IF entry = <<>> THEN <<>>
       ELSE IF loc[t].op = "read_posting_list" THEN entry[1].posting_range
       ELSE entry[1].fast_field_range

\* the data files of the split the query of thread t reads from
DataFilesOf(t) ==
    FilesEndingWith(fs[loc[t].obj[1].split_path].files,
                    IF loc[t].op = "read_posting_list" THEN DotTerm ELSE DotFast)

\* C25: a reader query returns one error chosen in a fixed order: FieldError
\* for an absent field or a missing range comes first, even when the data
\* file is missing too, and only for a field that has the requested range
\* does a split without a .term file (read_posting_list) or without a .fast
\* file (get_fast_field_data) fail with InvalidSplit
C25_FieldChecksFirst ==
    \A t \in Threads :
        (/\ pc[t] = "rd_live"
         /\ loc[t].op \in {"read_posting_list", "get_fast_field_data"}) =>
            IF RequestedRange(t) = <<>>
            THEN loc[t].err = "FieldError"
            ELSE IF DataFilesOf(t) = {}
            THEN loc[t].err = "InvalidSplit"
            ELSE loc[t].err \notin {"FieldError", "InvalidSplit"}

\* fast field data of a field without a fast_field_range has been asked
\* for in a split without a .fast file: FieldError
C25_Witness ==
    \E t \in Threads :
        /\ pc[t] = "rd_live"
        /\ loc[t].op = "get_fast_field_data"
        /\ FieldEntry(t, loc[t].args[1]) # <<>>
        /\ RequestedRange(t) = <<>>
        /\ DataFilesOf(t) = {}
        /\ loc[t].err = "FieldError"

----------------------------------------------------------------------------
(* Properties of the two registry locks taken together *)

C27_FailureValueIsNoHandle ==
    /\ [](/\ 0 \notin DOMAIN GENERATOR_REGISTRY \cup DOMAIN READER_REGISTRY
          /\ \A t \in Threads :
                /\ (pc[t] = "done" /\ loc[t].op \in {"createNative", "openNative"}) =>
                       (loc[t].err # "") = (loc[t].ret = 0)
                /\ pc[t] \in GenCritical \cup RdrCritical => loc[t].handle # 0)
    /\ [][\A t \in Threads :
            (/\ pc[t] = "idle"
             /\ pc'[t] = "done"
             /\ loc'[t].op \in {"createNative", "openNative"}) =>
                /\ loc'[t].err # ""
                /\ loc'[t].ret = 0
                /\ UNCHANGED <<COUNTER, GENERATOR_REGISTRY, READER_REGISTRY>>]_vars

\* an openNative has failed and returned 0 while a generator and a reader
\* are registered, and the other thread has just passed 0 to closeNative
C27_Witness ==
    \E t, u \in Threads :
        /\ pc[t] = "done"
        /\ loc[t].op = "openNative"
        /\ loc[t].err # ""
        /\ loc[t].ret = 0
        /\ DOMAIN GENERATOR_REGISTRY # {}
        /\ DOMAIN READER_REGISTRY # {}
        /\ pc[u] = "ur_lock"
        /\ loc[u].handle = 0

\* C28: for a field with a fast_field_range and a doc_range with
\* start <= end, the byte range get_fast_field_data computes and reads from
\* the .fast file lies inside the field's fast_field_range: its start is at
\* or after the range's start and its end at or before the range's end, so
\* the bytes returned are bytes of that range
C28_FastFieldReadInsideRange ==
    \A t \in Threads :
        (/\ pc[t] = "rd_live"
         /\ loc[t].op = "get_fast_field_data"
         /\ RequestedRange(t) # <<>>
         /\ DataFilesOf(t) # {}
         /\ loc[t].args[2].start <= loc[t].args[2].end) =>
            LET base == ByteRange(to_le_bytes_u64(RequestedRange(t)[1].start),
                                  to_le_bytes_u64(RequestedRange(t)[1].end))
                files == fs[loc[t].obj[1].split_path].files
            IN /\ \A r \in calculate_doc_range_bytes(base, loc[t].args[2]) :
                      ~r.panic =>
                          /\ le_leq(base.start, r.range.start)
                          /\ le_leq(r.range.end, base.end)
               /\ loc[t].err = "" =>
                      \E file \in DataFilesOf(t) :
                          \E i \in RequestedRange(t)[1].start
                                      ..RequestedRange(t)[1].end :
                              /\ i + Len(loc[t].res[1]) <= RequestedRange(t)[1].end
                              /\ loc[t].res[1] =
                                     SubSeq(files[file], i + 1, i + Len(loc[t].res[1]))

\* docs 1..3 of a field whose fast_field_range is bytes 0..16 have been
\* read from a .fast file of 24 bytes: the call returned bytes 8..24
C28_Witness ==
    \E t \in Threads :
        /\ pc[t] = "rd_live"
        /\ loc[t].op = "get_fast_field_data"
        /\ RequestedRange(t) = << ByteRange(0, 16) >>
        /\ loc[t].args[2] = [start |-> 1, end |-> 3]
        /\ loc[t].err = ""
        /\ \E file \in DataFilesOf(t) :
              /\ Len(fs[loc[t].obj[1].split_path].files[file]) = 24
              /\ loc[t].res[1] = SubSeq(fs[loc[t].obj[1].split_path].files[file], 9, 24)

===========================================================================
